---- MODULE Spec2Model ----
(***************************************************************************)
(* Contingent-liabilities extraction (extraction_code.py): the column      *)
(* locator, the section-boundary detection, the library and text-derived   *)
(* table reconstruction and the "Processed Table" step of the Word export. *)
(*                                                                         *)
(* A text is a sequence of one-character strings; offsets keep Python's    *)
(* 0-based convention (text[a:b] is Slice(text, a, b)).                    *)
(***************************************************************************)
EXTENDS Integers, Sequences, FiniteSets, TLC

\* ------------------------------------------------------------------------
\* Text primitives (Python str operations used by the code)
\* ------------------------------------------------------------------------

\* A TLA+ string literal as a sequence of characters (\o <<>> makes the
\* sequence a tuple, evaluated once).
Chars(s) == [i \in 1..Len(s) |-> SubSeq(s, i, i)] \o <<>>

UpperLetters == Chars("ABCDEFGHIJKLMNOPQRSTUVWXYZ")
LowerLetters == Chars("abcdefghijklmnopqrstuvwxyz")
Digits == {"0", "1", "2", "3", "4", "5", "6", "7", "8", "9"}
UpperSet == {UpperLetters[i] : i \in 1..Len(UpperLetters)}
LowerSet == {LowerLetters[i] : i \in 1..Len(LowerLetters)}

\* \s of the re module on the characters the texts use.
Whitespace == {" ", "\n", "\t"}

\* \w of the re module.
WordChars == UpperSet \cup LowerSet \cup Digits \cup {"_"}

Min(a, b) == IF a < b THEN a ELSE b
Max(a, b) == IF a > b THEN a ELSE b

\* The least element of a non-empty set of integers.
Least(S) == CHOOSE i \in S : \A j \in S : i <= j

\* str.lower() of one character.
LowerChar(c) ==
    IF c \in UpperSet
    THEN LowerLetters[CHOOSE i \in 1..Len(UpperLetters) : UpperLetters[i] = c]
    ELSE c

\* The one character whose lowercase form has two characters: U+0130, the
\* capital I with a dot above, becomes 'i' and the combining dot U+0307.
\* Neither can be written in a string of a module: in the texts here the
\* sign '¤' stands for U+0130 and the sign '¨' for U+0307.
DottedCapitalI == "¤"
CombiningDot == "¨"

RECURSIVE LowerExpanding(_)
LowerExpanding(t) ==
    IF t = <<>> THEN <<>>
    ELSE (IF Head(t) = DottedCapitalI THEN <<"i", CombiningDot>> ELSE <<LowerChar(Head(t))>>)
            \o LowerExpanding(Tail(t))

\* str.lower()
Lower(t) ==
    IF \A i \in 1..Len(t) : t[i] # DottedCapitalI
    THEN [i \in 1..Len(t) |-> LowerChar(t[i])] \o <<>>
    ELSE LowerExpanding(t)

\* text[a:b] with Python's clamping of the two offsets.
Slice(t, a, b) == SubSeq(t, Min(a, Len(t)) + 1, Min(b, Len(t)))

\* lit occurs in t at the 1-based position i.
LitAt(t, i, lit) ==
    /\ i >= 1
    /\ i + Len(lit) - 1 <= Len(t)
    /\ \A j \in 1..Len(lit) : t[i + j - 1] = lit[j]

\* `sub in t`
Contains(t, sub) ==
    \/ sub = <<>>
    \/ \E i \in 1..(Len(t) - Len(sub) + 1) : t[i] = sub[1] /\ LitAt(t, i, sub)

\* The first position >= i whose character is not in S (Len(t)+1 if none):
\* where a greedy run of S-characters starting at i stops.
SkipSet(t, i, S) ==
    IF \A j \in i..Len(t) : t[j] \in S THEN Max(i, Len(t) + 1)
    ELSE CHOOSE j \in i..Len(t) : t[j] \notin S /\ \A k \in i..(j - 1) : t[k] \in S

\* str.strip()
Strip(t) ==
    LET first == SkipSet(t, 1, Whitespace)
    IN  IF first > Len(t) THEN <<>>
        ELSE SubSeq(t, first,
                    CHOOSE i \in first..Len(t) :
                        t[i] \notin Whitespace /\ \A j \in (i + 1)..Len(t) : t[j] \in Whitespace)

\* str.split(sep) for a one-character separator: the pieces between the
\* separators, empty pieces included.
RECURSIVE SplitOn(_, _)
SplitOn(t, sep) ==
    LET at == {i \in 1..Len(t) : t[i] = sep}
    IN  IF at = {} THEN <<t>>
        ELSE <<SubSeq(t, 1, Least(at) - 1)>>
                 \o SplitOn(SubSeq(t, Least(at) + 1, Len(t)), sep)

\* The first position >= i whose character is in S (Len(t)+1 if none).
SkipTo(t, i, S) ==
    IF \A j \in i..Len(t) : t[j] \notin S THEN Max(i, Len(t) + 1)
    ELSE CHOOSE j \in i..Len(t) : t[j] \in S /\ \A k \in i..(j - 1) : t[k] \notin S

\* str.split(): the maximal runs of non-whitespace characters.
RECURSIVE Words(_)
Words(t) ==
    LET a == SkipSet(t, 1, Whitespace)
        b == SkipTo(t, a, Whitespace)
    IN  IF a > Len(t) THEN <<>>
        ELSE <<SubSeq(t, a, b - 1)>> \o Words(SubSeq(t, b, Len(t)))

\* re.split(r'\s{2,}', t): split at every run of two or more whitespace
\* characters; a single whitespace character stays inside its piece.
RECURSIVE SplitWide(_)
SplitWide(t) ==
    LET runs == {i \in 1..Len(t) :
                    /\ t[i] \in Whitespace
                    /\ i + 1 <= Len(t)
                    /\ t[i + 1] \in Whitespace}
    IN  IF runs = {} THEN <<t>>
        ELSE LET a == Least(runs)
                 b == SkipSet(t, a, Whitespace)
             IN  <<SubSeq(t, 1, a - 1)>> \o SplitWide(SubSeq(t, b, Len(t)))

\* The non-empty elements of a sequence, in order.
RECURSIVE SelectNonEmpty(_)
SelectNonEmpty(s) ==
    IF s = <<>> THEN <<>>
    ELSE (IF Head(s) # <<>> THEN <<Head(s)>> ELSE <<>>) \o SelectNonEmpty(Tail(s))

\* A sequence of characters as a string.
RECURSIVE Str(_)
Str(t) ==
    IF t = <<>> THEN ""
    ELSE IF Len(t) = 1 THEN t[1]
    ELSE Str(SubSeq(t, 1, Len(t) \div 2)) \o Str(SubSeq(t, Len(t) \div 2 + 1, Len(t)))

\* ------------------------------------------------------------------------
\* The regular expressions of extract_contingent_liabilities_tables
\* ------------------------------------------------------------------------

NoMatch == [found |-> FALSE, start |-> 0, end |-> 0]

\* len(end_patterns)
NumEndPatterns == 6

\* {10,}: the least length of the run of capitals in the heading pattern.
CapsRun == 10

\* The literals of the patterns and of the keyword tests.
KwContingent == Chars("contingent")
KwLiabilit == Chars("liabilit")
KwRs == Chars("Rs.")
KwRsLower == Chars("rs.")
KwCrore == Chars("crore")
KwLakh == Chars("lakh")
KwMillion == Chars("million")
KwTotal == Chars("total")
KwConsolidated == Chars("consolidated")
DecimalDigits == Chars("0123456789")

\* contingent\s+liabilit[ieysn]* at position i: the position after the
\* match, 0 when it does not match there.
HeadingEndAt(t, i) ==
    LET a == i + Len(KwContingent)
        b == SkipSet(t, a, Whitespace)
    IN  IF LitAt(t, i, KwContingent) /\ b > a /\ LitAt(t, b, KwLiabilit)
        THEN SkipSet(t, b + Len(KwLiabilit), {"i", "e", "y", "s", "n"})
        ELSE 0

\* prefix\s*contingent\s+liabilit[ieysn]* at position i, prefix a literal;
\* the bare pattern (no prefix) has no leading \s*.
PrefixedHeadingEndAt(t, i, prefix) ==
    IF prefix = <<>> THEN (IF t[i] = KwContingent[1] THEN HeadingEndAt(t, i) ELSE 0)
    ELSE IF t[i] = prefix[1] /\ LitAt(t, i, prefix)
         THEN HeadingEndAt(t, SkipSet(t, i + Len(prefix), Whitespace))
         ELSE 0

\* The prefixes of the three start patterns, most specific first.
StartPrefixes == <<Chars("b)"), Chars("(b)"), <<>>>>

\* re.search(patterns[k], t): the leftmost match of the k-th start pattern,
\* with Python's 0-based start and exclusive end.
SearchStart(k, t) ==
    LET prefix == StartPrefixes[k]
        hits == {i \in 1..Len(t) : PrefixedHeadingEndAt(t, i, prefix) > 0}
        first == Least(hits)
    IN  IF hits = {} THEN NoMatch
        ELSE [found |-> TRUE, start |-> first - 1,
              end |-> PrefixedHeadingEndAt(t, first, prefix) - 1]

\* \bx\)\s* at position i: the letter x at a word boundary, then ')'.
LetterItemAt(t, i, x) ==
    /\ t[i] = x
    /\ i + 1 <= Len(t)
    /\ t[i + 1] = ")"
    /\ (i = 1 \/ t[i - 1] \notin WordChars)

\* \(x\)\s* at position i.
ParenItemAt(t, i, x) == t[i] = "(" /\ LitAt(t, i, <<"(", x, ")">>)

\* \n\s*\d+\.\s* at position i: a line that starts a numbered note.
NumberedNoteAt(t, i) ==
    LET j == SkipSet(t, i + 1, Whitespace)
        k == SkipSet(t, j, Digits)
    IN  /\ t[i] = "\n"
        /\ k > j
        /\ k <= Len(t)
        /\ t[k] = "."

\* \n\s*[A-Z][A-Z\s]{10,}\n at position i: a line in capitals (a capital,
\* ten or more capitals or whitespace, a newline).
CapsHeadingAt(t, i) ==
    LET j == SkipSet(t, i + 1, Whitespace)
        m == SkipSet(t, j + 1, UpperSet \cup Whitespace)
    IN  /\ t[i] = "\n"
        /\ j <= Len(t)
        /\ t[j] \in UpperSet
        /\ \E p \in (j + CapsRun + 1)..(m - 1) : t[p] = "\n"

\* The positions of t where the k-th of end_patterns matches.
EndHits(k, t) ==
    CASE k = 1 -> {i \in 1..Len(t) : LetterItemAt(t, i, "c")}
      [] k = 2 -> {i \in 1..Len(t) : ParenItemAt(t, i, "c")}
      [] k = 3 -> {i \in 1..Len(t) : LetterItemAt(t, i, "d")}
      [] k = 4 -> {i \in 1..Len(t) : ParenItemAt(t, i, "d")}
      [] k = 5 -> {i \in 1..Len(t) : NumberedNoteAt(t, i)}
      [] k = 6 -> {i \in 1..Len(t) : CapsHeadingAt(t, i)}

\* re.search(end_patterns[k], t): only the start of the match is used.
SearchEnd(k, t) ==
    LET hits == EndHits(k, t)
    IN  IF hits = {} THEN NoMatch
        ELSE [found |-> TRUE, start |-> Least(hits) - 1, end |-> 0]

\* ------------------------------------------------------------------------
\* Step 2: section boundaries (extraction_code.py lines 140-191)
\* ------------------------------------------------------------------------

\* The end search begins this many characters after the heading match.
SearchOffset == 50

\* The index of the start pattern whose match begins first in text_lower,
\* 0 if none matches.
FirstStartPattern_Leftmost(text_lower) ==
    LET ks == {k \in 1..Len(StartPrefixes) : SearchStart(k, text_lower).found}
        leftmost == {k \in ks : \A j \in ks :
                        SearchStart(k, text_lower).start <= SearchStart(j, text_lower).start}
    IN  IF ks = {} THEN 0 ELSE Least(leftmost)

\* The index of the first start pattern that matches text_lower, 0 if none.
FirstStartPattern(text_lower) ==
    LET ks == {k \in 1..Len(StartPrefixes) : SearchStart(k, text_lower).found}
    IN  IF ks = {} THEN 0 ELSE Least(ks)

\* The index of the first end pattern (in list order) that matches rest,
\* 0 if none.
FirstEndPattern(rest) ==
    LET ks == {k \in 1..NumEndPatterns : SearchEnd(k, rest).found}
    IN  IF ks = {} THEN 0 ELSE Least(ks)

\* An end offset that defaults to the place where the end search begins.
SectionEnd_FromSearchStart(relevant_text, text_lower, m) ==
    LET search_start == m.end + SearchOffset
        rest == Slice(text_lower, search_start, Len(text_lower))
        k == FirstEndPattern(rest)
    IN  IF k = 0 THEN search_start
        ELSE search_start + SearchEnd(k, rest).start

\* The end offset for a heading match m in relevant_text: the start of the
\* first end pattern that matches text_lower[search_start:], the end of the
\* text by default.
SectionEnd(relevant_text, text_lower, m) ==
    LET search_start == m.end + SearchOffset
        rest == Slice(text_lower, search_start, Len(text_lower))
        k == FirstEndPattern(rest)
    IN  IF k = 0 THEN Len(relevant_text)
        ELSE search_start + SearchEnd(k, rest).start

\* The whole of step 2 for a column the locator found: the pattern used,
\* the bounds and the trimmed section text.
ExtractSection(relevant_text) ==
    LET text_lower == Lower(relevant_text)
        k == FirstStartPattern(text_lower)
        m == SearchStart(k, text_lower)
        end == SectionEnd(relevant_text, text_lower, m)
    IN  IF k = 0
        THEN [section_extracted |-> FALSE, pattern |-> 0, start |-> 0,
              match_end |-> 0, end |-> 0, text_found |-> relevant_text]
        ELSE [section_extracted |-> TRUE, pattern |-> k, start |-> m.start,
              match_end |-> m.end, end |-> end,
              text_found |-> Strip(Slice(relevant_text, m.start, end))]

\* ------------------------------------------------------------------------
\* Step 3: tables (extraction_code.py lines 211-289)
\* ------------------------------------------------------------------------

Rupee == "₹"

\* A candidate line is longer than MinLineLen and shorter than MaxLineLen.
MinLineLen == 10
MaxLineLen == 200

\* A row of the text-derived table has at least this many cells.
MinCells == 2

\* t without the characters of S.
RECURSIVE Without(_, _)
Without(t, S) ==
    IF t = <<>> THEN <<>>
    ELSE (IF Head(t) \in S THEN <<>> ELSE <<Head(t)>>) \o Without(Tail(t), S)

\* word.replace(',', '').replace('.', '').replace('(', '').replace(')', '').isdigit()
IsNumericToken(word) ==
    LET w == Without(word, {",", ".", "(", ")"})
    IN  w # <<>> /\ \A i \in 1..Len(w) : w[i] \in Digits

\* The money test of the text path: a currency symbol, an amount word or a
\* numeric token.
HasAmount(line) ==
    LET lower == Lower(line)
        words == Words(line)
    IN  \/ \E i \in 1..Len(line) : line[i] = Rupee
        \/ Contains(line, KwRs)
        \/ Contains(lower, KwCrore)
        \/ Contains(lower, KwLakh)
        \/ \E i \in 1..Len(words) : IsNumericToken(words[i])

\* A length test that accepts both ends of the range.
LengthOk_Inclusive(line) == MinLineLen <= Len(line) /\ Len(line) <= MaxLineLen

\* The length test of the text path.
LengthOk(line) == MinLineLen < Len(line) /\ Len(line) < MaxLineLen

SkipWords ==
    {Chars("note"), Chars("contingent"), Chars("liabilit"), Chars("statement"),
     Chars("financial"), Chars("as on"), Chars("previous year")}

\* A header-like line: it contains one of the skip words.
IsHeaderLike(line) ==
    LET lower == Lower(line)
    IN  \E w \in SkipWords : Contains(lower, w)

\* The stripped line is kept as a potential table line.
IsTableLine(line) == LengthOk(line) /\ HasAmount(line) /\ ~IsHeaderLike(line)

\* The elements of lines, stripped, that are potential table lines.
RECURSIVE FilterTableLines(_)
FilterTableLines(lines) ==
    IF lines = <<>> THEN <<>>
    ELSE LET line == Strip(Head(lines))
         IN  (IF IsTableLine(line) THEN <<line>> ELSE <<>>) \o FilterTableLines(Tail(lines))

PotentialTableLines(text_found) == FilterTableLines(SplitOn(text_found, "\n"))

\* [cell.strip() for cell in re.split(r'\s{2,}', line.strip()) if cell.strip()]
CleanedRow(line) ==
    LET row == SplitWide(Strip(line))
    IN  SelectNonEmpty([i \in 1..Len(row) |-> Strip(row[i])])

\* Cleaned rows kept whatever their number of cells, empty rows aside.
RECURSIVE TableData_AnyRow(_)
TableData_AnyRow(lines) ==
    IF lines = <<>> THEN <<>>
    ELSE LET cleaned_row == CleanedRow(Head(lines))
         IN  (IF Len(cleaned_row) >= 1 THEN <<cleaned_row>> ELSE <<>>)
                 \o TableData_AnyRow(Tail(lines))

\* The cleaned rows of the lines that have at least MinCells cells.
RECURSIVE TableData(_)
TableData(lines) ==
    IF lines = <<>> THEN <<>>
    ELSE LET cleaned_row == CleanedRow(Head(lines))
         IN  (IF Len(cleaned_row) >= MinCells THEN <<cleaned_row>> ELSE <<>>)
                 \o TableData(Tail(lines))

\* max(len(row) for row in table_data)
RECURSIVE MaxCols(_)
MaxCols(table_data) ==
    IF table_data = <<>> THEN 0
    ELSE Max(Len(Head(table_data)), MaxCols(Tail(table_data)))

\* A row left as it is.
PadRow_Unpadded(row, max_cols) == row

\* while len(row) < max_cols: row.append('')
PadRow(row, max_cols) ==
    [i \in 1..Max(Len(row), max_cols) |-> IF i <= Len(row) THEN row[i] ELSE <<>>]

\* str(n) for n >= 0.
RECURSIVE Decimal(_)
Decimal(n) ==
    LET d == DecimalDigits[(n % 10) + 1]
    IN  IF n < 10 THEN <<d>> ELSE Decimal(n \div 10) \o <<d>>

\* Column names without the case of four columns.
ColNames_NoNotes(max_cols) ==
    CASE max_cols = 2 -> <<"Description", "Amount">>
      [] max_cols = 3 -> <<"Description", "Current Year", "Previous Year">>
      [] OTHER -> [i \in 1..max_cols |-> "Column_" \o Str(Decimal(i))]

\* The column names chosen from the column count.
ColNames(max_cols) ==
    CASE max_cols = 2 -> <<"Description", "Amount">>
      [] max_cols = 3 -> <<"Description", "Current Year", "Previous Year">>
      [] max_cols = 4 -> <<"Description", "Current Year", "Previous Year", "Notes">>
      [] OTHER -> [i \in 1..max_cols |-> "Column_" \o Str(Decimal(i))]

\* Rows of character sequences as rows of strings.
StrRows(rows) == [r \in 1..Len(rows) |-> [c \in 1..Len(rows[r]) |-> Str(rows[r][c])]]

\* The rows that have a cell which is not in Missing (dropna(how='all')).
RECURSIVE DropAllMissing(_, _)
DropAllMissing(rows, Missing) ==
    IF rows = <<>> THEN <<>>
    ELSE (IF \E c \in 1..Len(Head(rows)) : Head(rows)[c] \notin Missing
          THEN <<Head(rows)>> ELSE <<>>) \o DropAllMissing(Tail(rows), Missing)

\* The DataFrame of the text-derived table: padded rows under the chosen
\* column names, rows that are empty throughout dropped.
TextFrame(table_data) ==
    LET max_cols == MaxCols(table_data)
        padded == [r \in 1..Len(table_data) |-> PadRow(table_data[r], max_cols)]
    IN  [columns |-> ColNames(max_cols),
         rows |-> DropAllMissing(StrRows(padded), {""})]

\* df.empty
FrameEmpty(df) == Len(df.rows) = 0 \/ Len(df.columns) = 0

\* The tables the text path appends for the potential table lines: none
\* or one.
TextTables(potential_lines) ==
    LET table_data == TableData(potential_lines)
        df == TextFrame(table_data)
    IN  IF table_data = <<>> \/ FrameEmpty(df) THEN <<>> ELSE <<df>>

\* A cell the PDF library could not read (Python's None, pandas' NaN).
None == "<None>"

\* The subsequence of row at the column positions in keep, in order.
RECURSIVE PickCols(_, _, _)
PickCols(row, keep, c) ==
    IF c > Len(row) THEN <<>>
    ELSE (IF c \in keep THEN <<row[c]>> ELSE <<>>) \o PickCols(row, keep, c + 1)

\* pd.DataFrame(table_data[1:], columns=table_data[0])
\*     .dropna(how='all').dropna(axis=1, how='all').fillna('')
LibFrame(table_data) ==
    LET rows == DropAllMissing(Tail(table_data), {None})
        keep == {c \in 1..Len(table_data[1]) : \E r \in 1..Len(rows) : rows[r][c] # None}
        fill(row) == [c \in 1..Len(row) |-> IF row[c] = None THEN "" ELSE row[c]]
    IN  [columns |-> PickCols(table_data[1], keep, 1),
         rows |-> [r \in 1..Len(rows) |-> fill(PickCols(rows[r], keep, 1))]]

\* A library table is kept when it has a header and a data row and its
\* frame is not empty.
LibTableKept(table_data) ==
    /\ Len(table_data) > 1
    /\ ~FrameEmpty(LibFrame(table_data))

\* The frames appended for the tables extract_tables() returned, in order.
RECURSIVE LibTables(_)
LibTables(page_tables) ==
    IF page_tables = <<>> THEN <<>>
    ELSE (IF LibTableKept(Head(page_tables))
          THEN <<LibFrame(Head(page_tables))>> ELSE <<>>) \o LibTables(Tail(page_tables))

\* ------------------------------------------------------------------------
\* save_results_to_word: the "Processed Table" step (lines 353-410)
\* ------------------------------------------------------------------------

\* The Word table has this many columns.
WordCols == 3

\* A line longer than this counts as financial data in the Word export.
WordMinLen == 10

\* has_financial_data of save_results_to_word.
HasFinancialData(line) ==
    LET lower == Lower(line)
    IN  \/ \E i \in 1..Len(line) : line[i] \in Digits
        \/ \E i \in 1..Len(line) : line[i] = Rupee
        \/ Contains(line, KwRs)
        \/ Contains(lower, KwRsLower)
        \/ Contains(lower, KwCrore)
        \/ Contains(lower, KwLakh)
        \/ Contains(lower, KwMillion)
        \/ Len(line) > WordMinLen

WordHeaders ==
    {Chars("contingent liabilities"), Chars("notes to"), Chars("financial statement")}

\* is_header of save_results_to_word.
IsWordHeader(line) ==
    LET lower == Lower(line)
    IN  \E h \in WordHeaders : Contains(lower, h)

\* The line ends the scan: a total line with financial data.
IsTotalLine(line) == Contains(Lower(line), KwTotal) /\ HasFinancialData(line)

\* The scan over the lines: keep the lines with financial data that are no
\* headers, stop after the first total line.
RECURSIVE ScanWordLines(_)
ScanWordLines(lines) ==
    IF lines = <<>> THEN <<>>
    ELSE LET line == Strip(Head(lines))
         IN  IF line = <<>> THEN ScanWordLines(Tail(lines))
             ELSE (IF HasFinancialData(line) /\ ~IsWordHeader(line)
                   THEN <<line>> ELSE <<>>)
                  \o (IF IsTotalLine(line) THEN <<>> ELSE ScanWordLines(Tail(lines)))

WordTableLines(text) == ScanWordLines(SplitOn(text, "\n"))

\* One row of the Word table: the cells of the line, padded and cut to
\* WordCols.
WordRow(line) ==
    LET columns == SplitWide(line)
        cols == SelectNonEmpty([i \in 1..Len(columns) |-> Strip(columns[i])])
    IN  [c \in 1..WordCols |-> IF c <= Len(cols) THEN Str(cols[c]) ELSE ""]

\* table_data: the rows of the Word table for the lines kept.
WordTable(table_lines) == [r \in 1..Len(table_lines) |-> WordRow(table_lines[r])]

\* ------------------------------------------------------------------------
\* Step 1: the column locator (extraction_code.py lines 91-137)
\* ------------------------------------------------------------------------

Sections == <<"consolidated_page", "standalone_page">>

\* pages_to_extract
ConsolidatedPhysical == 176
StandalonePhysical == 214

PhysicalPage(section_name) ==
    IF section_name = "consolidated_page" THEN ConsolidatedPhysical ELSE StandalonePhysical

\* target_main_heading, chosen by 'consolidated' in section_name.
ConsolidatedHeading == Chars("notes to consolidated financial statement")
StandaloneHeading == Chars("notes to standalone financial statement")
MainHeading(section_name) ==
    IF Contains(Chars(section_name), KwConsolidated)
    THEN ConsolidatedHeading
    ELSE StandaloneHeading

\* target_sub_heading
SubHeading == Chars("contingent liabilit")

\* A local variable that no statement has assigned yet.
Unbound == [bound |-> FALSE, value |-> ""]
Bound(t) == [bound |-> TRUE, value |-> Str(t)]

\* The lowered column text holds the main heading and the sub heading.
HasBoth(lower, section_name) ==
    Contains(lower, MainHeading(section_name)) /\ Contains(lower, SubHeading)

\* A first pass that accepts the left column on the sub heading alone.
LocateBoth_SubHeadingOnly(left_text, right_text, right_lower, section_name) ==
    IF Contains(Lower(left_text), SubHeading)
    THEN [relevant_text |-> left_text, column_used |-> "LEFT", right_lower |-> right_lower]
    ELSE IF right_text # <<>>
         THEN IF HasBoth(Lower(right_text), section_name)
              THEN [relevant_text |-> right_text, column_used |-> "RIGHT",
                    right_lower |-> Bound(Lower(right_text))]
              ELSE [relevant_text |-> <<>>, column_used |-> "",
                    right_lower |-> Bound(Lower(right_text))]
         ELSE [relevant_text |-> <<>>, column_used |-> "", right_lower |-> right_lower]

\* The first pass (lines 106-118): the column that holds both headings, the
\* left one first; the right column is lowered only when the left one fails
\* and the right text is not empty.
LocateBoth(left_text, right_text, right_lower, section_name) ==
    IF HasBoth(Lower(left_text), section_name)
    THEN [relevant_text |-> left_text, column_used |-> "LEFT", right_lower |-> right_lower]
    ELSE IF right_text # <<>>
         THEN IF HasBoth(Lower(right_text), section_name)
              THEN [relevant_text |-> right_text, column_used |-> "RIGHT",
                    right_lower |-> Bound(Lower(right_text))]
              ELSE [relevant_text |-> <<>>, column_used |-> "",
                    right_lower |-> Bound(Lower(right_text))]
         ELSE [relevant_text |-> <<>>, column_used |-> "", right_lower |-> right_lower]

\* A second pass that runs even when the first pass selected a column.
LocateSubOnly_Always(left_text, right_text, first) ==
    IF Contains(Lower(left_text), SubHeading)
    THEN [raised |-> FALSE, relevant_text |-> left_text, column_used |-> "LEFT",
          right_lower |-> first.right_lower]
    ELSE IF first.relevant_text # <<>> THEN [raised |-> FALSE] @@ first
         ELSE IF ~first.right_lower.bound
              THEN [raised |-> TRUE] @@ first
              ELSE IF Contains(Chars(first.right_lower.value), SubHeading)
                   THEN [raised |-> FALSE, relevant_text |-> right_text,
                         column_used |-> "RIGHT", right_lower |-> first.right_lower]
                   ELSE [raised |-> FALSE] @@ first

\* The second pass (lines 120-130) when the first found nothing: the column
\* that holds the sub heading alone. Reading right_lower while it is unbound
\* raises (UnboundLocalError).
LocateSubOnly(left_text, right_text, first) ==
    IF first.relevant_text # <<>> THEN [raised |-> FALSE] @@ first
    ELSE IF Contains(Lower(left_text), SubHeading)
         THEN [raised |-> FALSE, relevant_text |-> left_text, column_used |-> "LEFT",
               right_lower |-> first.right_lower]
         ELSE IF ~first.right_lower.bound
              THEN [raised |-> TRUE] @@ first
              ELSE IF Contains(Chars(first.right_lower.value), SubHeading)
                   THEN [raised |-> FALSE, relevant_text |-> right_text,
                         column_used |-> "RIGHT", right_lower |-> first.right_lower]
                   ELSE [raised |-> FALSE] @@ first

\* A locator that hands back the empty text when no column was selected.
LocateColumn_EmptyOnFailure(left_text, right_text, right_lower, section_name) ==
    LET second == LocateSubOnly(left_text, right_text,
                                LocateBoth(left_text, right_text, right_lower, section_name))
    IN  IF second.raised \/ second.relevant_text # <<>>
        THEN [found_section |-> ~second.raised] @@ second
        ELSE [found_section |-> FALSE, raised |-> FALSE, relevant_text |-> <<>>,
              column_used |-> "BOTH", right_lower |-> second.right_lower]

\* The locator as a whole (lines 101-137): found_section when a column was
\* selected, both columns joined otherwise.
LocateColumn(left_text, right_text, right_lower, section_name) ==
    LET second == LocateSubOnly(left_text, right_text,
                                LocateBoth(left_text, right_text, right_lower, section_name))
    IN  IF second.raised \/ second.relevant_text # <<>>
        THEN [found_section |-> ~second.raised] @@ second
        ELSE [found_section |-> FALSE, raised |-> FALSE,
              relevant_text |-> left_text \o <<"\n", "\n">> \o right_text,
              column_used |-> "BOTH", right_lower |-> second.right_lower]

\* ------------------------------------------------------------------------
\* The LLM pipeline (updated_ready.py, ready_pipeline.py): json.loads
\* ------------------------------------------------------------------------

\* A JSON value as the classification code looks at it: its kind, the
\* text of a string, a number as mant / 10^places, the members of an object
\* in the order of the text. The items of an array are not kept.
JsonValue(kind, str, mant, places, members) ==
    [kind |-> kind, str |-> str, mant |-> mant, places |-> places, members |-> members]

NoValue == JsonValue("none", "", 0, 0, <<>>)

\* A parse that failed (json.JSONDecodeError).
ParseFails == [ok |-> FALSE, next |-> 0, val |-> NoValue]

Parsed(next, val) == [ok |-> TRUE, next |-> next, val |-> val]

Quote == "\""

\* The value of a run of decimal digits.
RECURSIVE DigitsValue(_)
DigitsValue(ds) ==
    IF ds = <<>> THEN 0
    ELSE 10 * DigitsValue(SubSeq(ds, 1, Len(ds) - 1))
            + (CHOOSE d \in 0..9 : DecimalDigits[d + 1] = ds[Len(ds)])

\* A string without escape sequences at position i (the responses used hold
\* no backslash); a control character inside it is an error.
ParseString(t, i) ==
    LET j == SkipTo(t, i + 1, {Quote, "\\", "\n", "\t"})
    IN  IF i <= Len(t) /\ t[i] = Quote /\ j <= Len(t) /\ t[j] = Quote
        THEN Parsed(j + 1, JsonValue("string", Str(SubSeq(t, i + 1, j - 1)), 0, 0, <<>>))
        ELSE ParseFails

\* A number at position i: -?(0|[1-9][0-9]*)(\.[0-9]+)? (the responses
\* used hold no exponent).
ParseNumber(t, i) ==
    LET a == IF t[i] = "-" THEN i + 1 ELSE i
        b == SkipSet(t, a, Digits)
        frac == b + 1 <= Len(t) /\ t[b] = "." /\ t[b + 1] \in Digits
        c == IF frac THEN SkipSet(t, b + 1, Digits) ELSE b
        mant == DigitsValue(SubSeq(t, a, b - 1) \o SubSeq(t, b + 1, c - 1))
    IN  IF b > a /\ (t[a] = "0" => b = a + 1)
        THEN Parsed(c, JsonValue("number", "", IF t[i] = "-" THEN 0 - mant ELSE mant,
                                 IF frac THEN c - b - 1 ELSE 0, <<>>))
        ELSE ParseFails

\* One of the literals true, false, null at position i.
ParseLiteral(t, i) ==
    LET hits == {w \in {"true", "false", "null"} : LitAt(t, i, Chars(w))}
    IN  IF hits = {} THEN ParseFails
        ELSE LET w == CHOOSE w \in hits : TRUE
             IN  Parsed(i + Len(w), JsonValue(w, "", 0, 0, <<>>))

RECURSIVE ParseValue(_, _), ParseMembers(_, _, _), ParseItems(_, _)

\* The value that starts at position i.
ParseValue(t, i) ==
    IF i > Len(t) THEN ParseFails
    ELSE IF t[i] = "{" THEN
        LET j == SkipSet(t, i + 1, Whitespace)
        IN  IF j <= Len(t) /\ t[j] = "}"
            THEN Parsed(j + 1, JsonValue("object", "", 0, 0, <<>>))
            ELSE ParseMembers(t, j, <<>>)
    ELSE IF t[i] = "[" THEN
        LET j == SkipSet(t, i + 1, Whitespace)
        IN  IF j <= Len(t) /\ t[j] = "]"
            THEN Parsed(j + 1, JsonValue("array", "", 0, 0, <<>>))
            ELSE ParseItems(t, j)
    ELSE IF t[i] = Quote THEN ParseString(t, i)
    ELSE IF t[i] \in Digits \cup {"-"} THEN ParseNumber(t, i)
    ELSE ParseLiteral(t, i)

\* The members of an object from the key at position i on, after the
\* members in done.
ParseMembers(t, i, done) ==
    LET key == ParseString(t, i)
        colon == SkipSet(t, key.next, Whitespace)
        value == ParseValue(t, SkipSet(t, colon + 1, Whitespace))
        after == SkipSet(t, value.next, Whitespace)
        members == Append(done, [key |-> key.val.str, val |-> value.val])
    IN  IF ~key.ok \/ colon > Len(t) \/ t[colon] # ":" THEN ParseFails
        ELSE IF ~value.ok \/ after > Len(t) THEN ParseFails
        ELSE IF t[after] = "}" THEN Parsed(after + 1, JsonValue("object", "", 0, 0, members))
        ELSE IF t[after] = "," THEN ParseMembers(t, SkipSet(t, after + 1, Whitespace), members)
        ELSE ParseFails

\* The items of an array from the item at position i on.
ParseItems(t, i) ==
    LET value == ParseValue(t, i)
        after == SkipSet(t, value.next, Whitespace)
    IN  IF ~value.ok \/ after > Len(t) THEN ParseFails
        ELSE IF t[after] = "]" THEN Parsed(after + 1, JsonValue("array", "", 0, 0, <<>>))
        ELSE IF t[after] = "," THEN ParseItems(t, SkipSet(t, after + 1, Whitespace))
        ELSE ParseFails

\* json.loads(s): one value with nothing but whitespace around it.
JsonLoads(t) ==
    LET r == ParseValue(t, SkipSet(t, 1, Whitespace))
    IN  IF r.ok /\ SkipSet(t, r.next, Whitespace) > Len(t) THEN r ELSE ParseFails

\* re.search(r'\{.*\}', s, re.DOTALL): from the first '{' to the last '}'
\* after it; the empty sequence when there is no match.
BraceSpan(t) ==
    LET opens == {i \in 1..Len(t) : t[i] = "{"}
        closes == {i \in 1..Len(t) : t[i] = "}"}
        first == Least(opens)
        last == CHOOSE c \in closes : \A d \in closes : d <= c
    IN  IF opens = {} \/ closes = {} THEN <<>>
        ELSE IF last < first THEN <<>>
        ELSE SubSeq(t, first, last)

\* The object parse_llama_json_response falls back to.
DefaultClassification ==
    JsonValue("object", "", 0, 0,
              <<[key |-> "relevance", val |-> JsonValue("string", "Non Relevant", 0, 0, <<>>)],
                [key |-> "confidence", val |-> JsonValue("number", "", 0, 1, <<>>)]>>)

\* A parser without the second attempt: whatever does not parse directly
\* becomes the default object.
ParseLlamaJsonResponse_DefaultOnFailure(response_text) ==
    LET direct == JsonLoads(response_text)
    IN  IF direct.ok THEN direct.val ELSE DefaultClassification

\* parse_llama_json_response(response_text)
ParseLlamaJsonResponse(response_text) ==
    LET direct == JsonLoads(response_text)
        span == BraceSpan(response_text)
        inner == JsonLoads(span)
    IN  IF direct.ok THEN direct.val
        ELSE IF span # <<>> /\ inner.ok THEN inner.val
        ELSE DefaultClassification

\* dict.get(key, default): the last member with the key.
Get(value, key, default) ==
    LET at == {i \in 1..Len(value.members) : value.members[i].key = key}
    IN  IF at = {} THEN default
        ELSE value.members[CHOOSE i \in at : \A j \in at : j <= i].val

\* ------------------------------------------------------------------------
\* The LLM pipeline: the gateway call, the prefilter and the two gates
\* ------------------------------------------------------------------------

\* The stage-1 confidence a page needs, in hundredths (0.85).
ConfidenceThreshold == 85

RECURSIVE Pow10(_)
Pow10(n) == IF n = 0 THEN 1 ELSE 10 * Pow10(n - 1)

\* mant / 10^places >= 0.85
AtLeastThreshold(mant, places) == mant * 100 >= ConfidenceThreshold * Pow10(places)

KwRelevant == Chars("Relevant")
KwConfidence == Chars("confidence")
KwConfidenceKey == Chars("\"confidence\":")
KwRelevanceRelevant == Chars("\"relevance\": \"Relevant\"")

\* \bcontingent\s+liabilit(y|ies)\b at position i of the lowered text.
KeywordAt(t, i) ==
    LET a == i + Len(KwContingent)
        b == SkipSet(t, a, Whitespace)
        c == b + Len(KwLiabilit)
        boundary(p) == p > Len(t) \/ t[p] \notin WordChars
    IN  /\ t[i] = KwContingent[1]
        /\ i = 1 \/ t[i - 1] \notin WordChars
        /\ LitAt(t, i, KwContingent)
        /\ b > a
        /\ LitAt(t, b, KwLiabilit)
        /\ \/ LitAt(t, c, <<"y">>) /\ boundary(c + 1)
           \/ LitAt(t, c, <<"i", "e", "s">>) /\ boundary(c + 3)

\* keyword_prefilter(pages): the page numbers (0-based) of the pages whose
\* text matches the pattern, whatever the case, in order.
KeywordPrefilter(pages) ==
    LET hit(n) == LET lower == Lower(Chars(pages[n]))
                  IN  \E i \in 1..Len(lower) : KeywordAt(lower, i)
        nums == [n \in 1..Len(pages) |-> n - 1]
    IN  SelectSeq(nums, LAMBDA num : hit(num + 1))

\* What one call of the model gateway does: it fails with a message, or it
\* delivers a text.
CallFailed(message) == [fails |-> TRUE, text |-> message]
CallOutput(text) == [fails |-> FALSE, text |-> text]

\* HostedLLM._call: the stripped output; a failure of any kind becomes the
\* text "LLM Call Failed: <message>".
HostedLLMCall(outcome) ==
    IF outcome.fails THEN "LLM Call Failed: " \o outcome.text
    ELSE Str(Strip(Chars(outcome.text)))

\* What a gate decides: the comparison or conversion raised, or the page
\* passes, or it does not.
GateRaises == [raised |-> TRUE, passes |-> FALSE]
Gate(passes) == [raised |-> FALSE, passes |-> passes]

\* isinstance(result, dict) and result.get("relevance") == "Relevant"
SaysRelevant(result) ==
    /\ result.kind = "object"
    /\ LET relevance == Get(result, "relevance", NoValue)
       IN  relevance.kind = "string" /\ relevance.str = "Relevant"

\* updated_ready.py, lines 269-271: the stage-1 gate on the parsed
\* response. Comparing a confidence that is no number with 0.85 raises
\* TypeError; True and False compare as 1 and 0.
LlamaStage1Gate(result) ==
    IF ~SaysRelevant(result) THEN Gate(FALSE)
    ELSE LET confidence == Get(result, "confidence", JsonValue("number", "", 0, 0, <<>>))
         IN  CASE confidence.kind = "number"
                    -> Gate(AtLeastThreshold(confidence.mant, confidence.places))
               [] confidence.kind = "true" -> Gate(AtLeastThreshold(1, 0))
               [] confidence.kind = "false" -> Gate(AtLeastThreshold(0, 0))
               [] OTHER -> GateRaises

\* updated_ready.py, line 276: the stage-2 gate on the parsed response.
LlamaStage2Gate(result) == Gate(SaysRelevant(result))

\* re.search(r'"confidence":\s*([0-9.]+)', s).group(1): the run of digits
\* and dots of the leftmost match, the empty sequence when nothing matches.
ConfidenceGroup(t) ==
    LET start(i) == SkipSet(t, i + Len(KwConfidenceKey), Whitespace)
        hits == {i \in 1..Len(t) :
                    /\ t[i] = Quote
                    /\ LitAt(t, i, KwConfidenceKey)
                    /\ start(i) <= Len(t)
                    /\ t[start(i)] \in Digits \cup {"."}}
        from == start(Least(hits))
    IN  IF hits = {} THEN <<>>
        ELSE SubSeq(t, from, SkipSet(t, from, Digits \cup {"."}) - 1)

\* ready_pipeline.py, lines 260-264: the stage-1 gate on the text of the
\* response. float() of a run without a digit or with two dots raises
\* ValueError; without a match the confidence is 0.
OpenAIStage1Gate(stage1_result) ==
    LET t == Chars(stage1_result)
        group == ConfidenceGroup(t)
        dots == {i \in 1..Len(group) : group[i] = "."}
        dot == IF dots = {} THEN Len(group) + 1 ELSE Least(dots)
        digits == Without(group, {"."})
    IN  IF ~(Contains(t, KwRelevant) /\ Contains(t, KwConfidence)) THEN Gate(FALSE)
        ELSE IF group = <<>> THEN Gate(FALSE)
        ELSE IF Cardinality(dots) > 1 \/ digits = <<>> THEN GateRaises
        ELSE Gate(AtLeastThreshold(DigitsValue(digits), Len(group) - Min(dot, Len(group))))

\* ready_pipeline.py, line 268: the stage-2 gate on the text of the
\* response.
OpenAIStage2Gate(stage2_result) == Gate(Contains(Chars(stage2_result), KwRelevanceRelevant))

\* ------------------------------------------------------------------------
\* The PDF files the extraction is run on
\* ------------------------------------------------------------------------

\* At most this many tables are detected by the library on one page.
MaxLibTables == 1

\* A line "Tax ... 1,234" of exactly n characters (n >= 9).
LineOfLen(n) == "Tax" \o Str([i \in 1..(n - 8) |-> " "]) \o "1,234"

Plain == "Revenue from operations  1,234\nOther income  56"
HeadingOnly == "NOTES TO CONSOLIDATED FINANCIAL STATEMENTS\nProperty, plant and equipment  900"
EndToEnd == "b) Contingent Liabilities\nClaims against company ₹ 10,00,000\nGrand Total ₹ 10,00,000"
BothC == "Notes to Consolidated Financial Statements\n(b) Contingent Liabilities not provided for\nClaims against the company  ₹ 120  ₹ 95\nGuarantees given by banks  45  30  see 4\nDisputed tax demands  12\nTotal  177  125\nc) Capital commitments\nEstimated contracts  55"
ShortTail == "See Contingent Liabilities below."
CapsHeading == "Contingent Liabilities\nClaims against the company not acknowledged as debts  ₹ 50\nOTHER COMMITMENTS\nCapital expenditure  ₹ 70"
NumberedNote == "Contingent liabilities\nBank guarantees outstanding at the year end date  ₹ 30  ₹ 20\n12. Commitments\nCapital  5"
Wide == "Contingent liability\nClaims  1  2  3  4\nOther matters  5"
BoundaryLines ==
    "Contingent Liabilities\n" \o LineOfLen(MinLineLen - 1) \o "\n" \o LineOfLen(MinLineLen)
        \o "\n" \o LineOfLen(MinLineLen + 1) \o "\n" \o LineOfLen(MaxLineLen - 1)
        \o "\n" \o LineOfLen(MaxLineLen) \o "\n" \o LineOfLen(MaxLineLen + 1)
BareFirst == "Contingent liabilities of the group\nNotes to Consolidated Financial Statements\nb) Contingent Liabilities not provided for\nClaims against the company  ₹ 120  ₹ 95\nc) Capital commitments\nEstimated contracts  55"
EndOrder == "Contingent Liabilities\nClaims against the company not acknowledged as debts  ₹ 50\n12. Commitments\nCapital expenditure  ₹ 70\nc) Other matters  ₹ 5"
DottedName == "¤zmir unit\nb) Contingent Liabilities\nClaims against the company  ₹ 50"
TotalInWords == "Contingent Liabilities\nTotal exposure is described below\nClaims against the company  ₹ 50\nTotal  ₹ 50\nSee the auditors report"
TokenR == "Contingent liability for guarantees  ₹ 7\nPerformance guarantees  7"
BothR == "Notes to consolidated financial statement\nContingent liabilities\nLetters of credit  15  9"
TokenS == "(b) Contingent liabilities\nSales tax matters under appeal before the tribunal  ₹ 3\n(d) Leases\nRent  4"
BothS == "Notes to Standalone Financial Statements\nb) Contingent Liabilities\nIncome tax demands  ₹ 8  ₹ 6"
BothSR == "NOTES TO STANDALONE FINANCIAL STATEMENT\nContingent liabilities and commitments\nExcise duty demands  11"

ConsolidatedLeft ==
    {"", Plain, HeadingOnly, EndToEnd, BothC, ShortTail, CapsHeading, NumberedNote,
     Wide, BoundaryLines}
ConsolidatedRight == {"", Plain, TokenR, BothR}
StandaloneLeft == {"", Plain, TokenS, BothS, BothC}
StandaloneRight == {"", TokenR, BothSR}

\* Tables as extract_tables() returns them: a list of rows of cells.
LibTablePool ==
    { <<<<"Particulars", "Amount">>, <<"Claims", "120">>, <<None, None>> >>,
      <<<<"Particulars", None>>, <<"Claims", None>> >>,
      <<<<"Particulars", "Amount">>, <<None, None>> >>,
      <<<<"Particulars", "Amount">> >> }

\* What the library returns when it detects the very table that the text of
\* TokenR yields.
SameAsText == <<<<"Description", "Amount">>, <<"Performance guarantees", "7">> >>

PageTables == UNION {[1..n -> LibTablePool] : n \in 0..MaxLibTables}

\* A page: the text of its two halves, the tables the library detects on
\* it, and whether reading its text or detecting its tables raises.
Page(l, r, t) ==
    [left |-> l, right |-> r, tables |-> t, unreadable |-> FALSE, tables_raise |-> FALSE]
BlankPage == Page("", "", <<>>)
Unreadable(page) == [page EXCEPT !.unreadable = TRUE]
TablesRaise(page) == [page EXCEPT !.tables_raise = TRUE]

\* First pages that decide whether right_lower is bound when the second
\* section runs (the locator raises on the blank page; it never reads the
\* right column of the second; it lowers the right column of the third),
\* and first pages on which the library fails.
ConsolidatedCore ==
    {BlankPage, Page(BothC, "", <<>>), Page(Plain, TokenR, <<>>),
     Unreadable(Page(BothC, BothR, <<>>)), TablesRaise(Page(BothC, "", <<>>))}

\* len(pdf.pages) when neither page, the first page only, both pages exist.
NoPages == ConsolidatedPhysical - 1
FirstOnly == ConsolidatedPhysical
BothPages == StandalonePhysical

Document(n, c, s) ==
    [opens |-> TRUE, total_pages |-> n, consolidated_page |-> c, standalone_page |-> s]

\* The files: whether the file opens, the number of pages and the content
\* of the two pages read (a page past the end of the file has no content).
\* Every pair of columns on the first page; every list of library tables
\* beside a column with a section; every pair of columns on the second page
\* after each core first page; library tables on both pages; a page whose
\* library table and text yield the same table; a page with the bare
\* heading before the lettered one, a page with a numbered note before the
\* next lettered item and a page with the word total in a line of prose;
\* pages on which the library raises.
Documents ==
    {[Document(NoPages, BlankPage, BlankPage) EXCEPT !.opens = FALSE],
     Document(NoPages, BlankPage, BlankPage)}
    \cup {Document(FirstOnly, Page(l, r, <<>>), BlankPage) :
            l \in ConsolidatedLeft, r \in ConsolidatedRight}
    \cup {Document(FirstOnly, Page(l, "", t), BlankPage) :
            l \in {BothC, Plain, EndToEnd}, t \in PageTables}
    \cup {Document(FirstOnly, c, BlankPage) : c \in ConsolidatedCore}
    \cup {Document(BothPages, c, Page(l, r, <<>>)) :
            c \in ConsolidatedCore, l \in StandaloneLeft, r \in StandaloneRight}
    \cup {Document(BothPages, Page(BothC, "", t), Page(BothS, "", t)) : t \in PageTables}
    \cup {Document(FirstOnly, Page(TokenR, "", <<SameAsText>>), BlankPage)}
    \cup {Document(FirstOnly, Page(l, "", <<>>), BlankPage) :
            l \in {BareFirst, EndOrder, TotalInWords, DottedName}}
    \cup {Document(BothPages, Page(BothC, "", <<>>), s) :
            s \in {Unreadable(Page(BothS, "", <<>>)), TablesRaise(Page(TokenS, TokenR, <<>>))}}

\* ------------------------------------------------------------------------
\* The files and the model responses extract_cg is run on
\* ------------------------------------------------------------------------

\* The longest PDF file of the pipeline runs.
MaxPdfPages == 2

PageMention == "see CONTINGENT \n LIABILITY below"
PageOther == "No contingent liabilitys here"

PageTextPool == {PageMention, PageOther}

\* What fitz.open finds at pdf_path: a file that cannot be opened, or the
\* texts of its pages.
PdfFiles ==
    {[opens |-> FALSE, pages |-> <<>>]}
        \cup {[opens |-> TRUE, pages |-> ps] :
                 ps \in UNION {[1..n -> PageTextPool] : n \in 0..MaxPdfPages}}

RHigh == "{\"relevance\": \"Relevant\", \"confidence\": 0.9}"
RThreshold == " {\"relevance\": \"Relevant\", \"confidence\": 0.85}\n"
RLow == "{\"relevance\": \"Relevant\", \"confidence\": 0.84}"
RNonRelevantSure == "{\"relevance\": \"Non Relevant\", \"confidence\": 0.95}"
RCompact == "{\"relevance\":\"Relevant\",\"confidence\":0.9}"
RQuotedConfidence == "{\"relevance\": \"Relevant\", \"confidence\": \"0.9\"}"
RTruncatedObject == "{\"relevance\": \"Relevant\", \"confidence\": 0.9"
RTruncatedArray == "[{\"relevance\": \"Relevant\", \"confidence\": 0.9}, {\"rel"
RChatty == "Sure! {\"relevance\": \"Relevant\", \"confidence\": 0.9} Hope it helps"
RTwoDots == "{\"relevance\": \"Relevant\", \"confidence\": 0.9.1}"

\* The complete answers that RTruncatedObject and RTruncatedArray are cut
\* from.
RFullArray ==
    "[{\"relevance\": \"Relevant\", \"confidence\": 0.9}, {\"relevance\": \"Relevant\", \"confidence\": 0.7}]"

Responses ==
    {RHigh, RThreshold, RLow, RNonRelevantSure, RCompact, RQuotedConfidence,
     RTruncatedObject, RTruncatedArray, RChatty, RTwoDots}

\* What a call of the model gateway can do.
GatewayOutcomes == {CallOutput(r) : r \in Responses} \cup {CallFailed("timed out")}

NoCall == [fails |-> FALSE, text |-> "no call"]

Pipelines == {"updated_ready", "ready_pipeline"}

\* What extract_cg returns, or that it raised.
NotReturned == [kind |-> "pending", pages |-> <<>>]
ReturnsNone == [kind |-> "None", pages |-> <<>>]
ReturnsPages(ps) == [kind |-> "list", pages |-> ps]
Raises == [kind |-> "raised", pages |-> <<>>]

\* stage_1_classify and stage_2_classify: updated_ready.py returns the
\* parsed text of HostedLLM._call, ready_pipeline.py returns the stripped
\* content of the completion and lets a failed call propagate.
NoResult == [response |-> "", value |-> NoValue]

StageClassify(variant, outcome) ==
    IF variant = "updated_ready"
    THEN LET response == HostedLLMCall(outcome)
         IN  [raised |-> FALSE,
              result |-> [response |-> response,
                          value |-> ParseLlamaJsonResponse(Chars(response))]]
    ELSE IF outcome.fails THEN [raised |-> TRUE, result |-> NoResult]
    ELSE [raised |-> FALSE,
          result |-> [response |-> Str(Strip(Chars(outcome.text))), value |-> NoValue]]

Stage1Gate(variant, result) ==
    IF variant = "updated_ready" THEN LlamaStage1Gate(result.value)
    ELSE OpenAIStage1Gate(result.response)

Stage2Gate(variant, result) ==
    IF variant = "updated_ready" THEN LlamaStage2Gate(result.value)
    ELSE OpenAIStage2Gate(result.response)

\* ------------------------------------------------------------------------
\* The runs of the LLM pipeline: what docling finds in the filtered PDF and
\* what the model answers about a table
\* ------------------------------------------------------------------------

\* The most tables docling finds in the file at OUTPUT_PDF_PATH.
MaxTables == 3

\* The pages the tables are on (page_no of the first provenance).
TablePageNos == {1, 2}

\* result.document.tables as the loop sees it: the page of each table.
TableSeqs == UNION {[1..n -> TablePageNos] : n \in 0..MaxTables}

AnswerTrue == "True"
AnswerFalse == "False"
AnswerFalseBecause == "False. It lists share capital, not a true contingent liability."

\* What the call of classifyTable can do.
TableOutcomes ==
    {CallOutput(a) : a \in {AnswerTrue, AnswerFalse, AnswerFalseBecause}}
        \cup {CallFailed("timed out")}

KwTrue == Chars("true")

\* classifyTable: updated_ready.py returns the stripped text of
\* HostedLLM._call; ready_pipeline.py returns the content of the completion
\* and lets a failed call propagate.
ClassifyTable(variant, outcome) ==
    IF variant = "updated_ready"
    THEN [raised |-> FALSE, result |-> Str(Strip(Chars(HostedLLMCall(outcome))))]
    ELSE IF outcome.fails THEN [raised |-> TRUE, result |-> ""]
    ELSE [raised |-> FALSE, result |-> outcome.text]

\* "true" in classification_result.lower()
SaysTrue(classification_result) == Contains(Lower(Chars(classification_result)), KwTrue)

\* f"Page_no_{current_page_num}_table_{current_page_table_count}"
SheetName(current_page_num, current_page_table_count) ==
    "Page_no_" \o Str(Decimal(current_page_num)) \o "_table_"
        \o Str(Decimal(current_page_table_count))

\* The counter of the tables of the page: one more on the page of the
\* previous table (or on the first table), 1 on another page.
TableCount(prev_page_num, current_page_num, count) ==
    IF prev_page_num = 0 \/ prev_page_num = current_page_num THEN count + 1 ELSE 1

\* The subsequences of s.
RECURSIVE SubSeqs(_)
SubSeqs(s) ==
    IF s = <<>> THEN {<<>>}
    ELSE LET rest == SubSeqs(Tail(s))
         IN  rest \cup {<<Head(s)>> \o r : r \in rest}

\* ------------------------------------------------------------------------
\* extract_contingent_liabilities_tables and save_results_to_word as a
\* state machine
\* ------------------------------------------------------------------------

VARIABLES
    pdf,                    \* the file at pdf_path
    pc,                     \* where main() is
    total_pages,
    valid_pages,            \* the sections whose page exists, in order
    section_idx,            \* the position of the loop in valid_pages
    left_text, right_text,
    right_lower,            \* assigned only on some paths of the locator
    relevant_text, column_used, found_section,
    bounds,                 \* section_extracted, start, end of step 2
    potential_table_lines,
    section_results,
    results,
    word_lines,             \* table_lines of save_results_to_word, per section
    word_tables,            \* table_data of save_results_to_word, per section
    pipeline,               \* which of the two LLM pipelines runs
    pdf_file,               \* the file at pdf_path of extract_cg
    cg_pc,                  \* where extract_cg is
    pages, candidates,
    cand_idx,               \* the position of the loop in candidates
    last_call,              \* what the latest call of the model gateway did
    stage1_result, stage2_result,
    relevant_pages,
    open_handles,           \* the fitz documents that are open
    returned,               \* what extract_cg returned
    main_pc,                \* where the main part of the pipeline script is
    output_pdf,             \* the file at OUTPUT_PDF_PATH: absent, stale, fresh
    converted,              \* the file create_table had docling convert
    doc_tables,             \* result.document.tables: the page of each table
    table_ix,
    previous_page_num,      \* 0 stands for None
    current_page_table_count,
    sheet_name,
    classification_result,
    xlsx_files              \* the files written: name -> the table in it

extraction_vars ==
    <<pdf, pc, total_pages, valid_pages, section_idx, left_text, right_text, right_lower,
      relevant_text, column_used, found_section, bounds, potential_table_lines,
      section_results, results, word_lines, word_tables>>

cg_vars ==
    <<pipeline, pdf_file, cg_pc, pages, candidates, cand_idx, last_call, stage1_result,
      stage2_result, relevant_pages, open_handles, returned>>

table_vars ==
    <<main_pc, output_pdf, converted, doc_tables, table_ix, previous_page_num,
      current_page_table_count, sheet_name, classification_result, xlsx_files>>

vars == <<extraction_vars, cg_vars, table_vars>>

locator_vars == <<left_text, right_text, relevant_text, column_used, found_section>>

\* logical_pages
LogicalPage(section_name) == IF section_name = "consolidated_page" THEN 346 ELSE 423

NoBounds ==
    [section_extracted |-> FALSE, pattern |-> 0, start |-> 0, match_end |-> 0, end |-> 0]

\* section_results as the loop body creates it (lines 64-69).
EmptyResults(section_name) ==
    [logical_page |-> LogicalPage(section_name),
     physical_page |-> PhysicalPage(section_name),
     text_found |-> "", tables |-> <<>>]

section_name == valid_pages[section_idx]

\* The extraction before it starts, the file apart.
ExtractionStart ==
    /\ pc = "open"
    /\ total_pages = 0
    /\ valid_pages = <<>>
    /\ section_idx = 0
    /\ left_text = ""
    /\ right_text = ""
    /\ right_lower = Unbound
    /\ relevant_text = ""
    /\ column_used = ""
    /\ found_section = FALSE
    /\ bounds = NoBounds
    /\ potential_table_lines = <<>>
    /\ section_results = EmptyResults("consolidated_page")
    /\ results = <<>>
    /\ word_lines = <<>>
    /\ word_tables = <<>>

\* create_table is not run.
TableIdle ==
    /\ main_pc = "idle"
    /\ output_pdf = "absent"
    /\ converted = "nothing"
    /\ doc_tables = <<>>
    /\ table_ix = 0
    /\ previous_page_num = 0
    /\ current_page_table_count = 0
    /\ sheet_name = ""
    /\ classification_result = ""
    /\ xlsx_files = <<>>

\* The LLM pipeline is not run.
CgIdle ==
    /\ TableIdle
    /\ pipeline = "none"
    /\ pdf_file = [opens |-> FALSE, pages |-> <<>>]
    /\ cg_pc = "idle"
    /\ pages = <<>>
    /\ candidates = <<>>
    /\ cand_idx = 0
    /\ last_call = NoCall
    /\ stage1_result = NoResult
    /\ stage2_result = NoResult
    /\ relevant_pages = <<>>
    /\ open_handles = {}
    /\ returned = NotReturned

Init ==
    /\ pdf \in Documents
    /\ ExtractionStart
    /\ CgIdle

\* The extraction is not run.
ExtractionIdle ==
    /\ pdf = Document(NoPages, BlankPage, BlankPage)
    /\ pc = "idle"
    /\ total_pages = 0
    /\ valid_pages = <<>>
    /\ section_idx = 0
    /\ left_text = ""
    /\ right_text = ""
    /\ right_lower = Unbound
    /\ relevant_text = ""
    /\ column_used = ""
    /\ found_section = FALSE
    /\ bounds = NoBounds
    /\ potential_table_lines = <<>>
    /\ section_results = EmptyResults("consolidated_page")
    /\ results = <<>>
    /\ word_lines = <<>>
    /\ word_tables = <<>>

\* results[section_name] = section_results (lines 298 and 303), then the
\* next section, or the return when there is none.
StoreAndAdvance(sec_results) ==
    /\ section_results' = sec_results
    /\ results' = (section_name :> sec_results) @@ results
    /\ IF section_idx = Len(valid_pages)
       THEN pc' = "returned" /\ section_idx' = section_idx
       ELSE pc' = "read_page" /\ section_idx' = section_idx + 1

\* An opening step that keeps every section, whether its page exists or
\* not.
OpenPdf_EverySection ==
    /\ pc = "open"
    /\ UNCHANGED <<cg_vars, table_vars>>
    /\ pdf.opens
    /\ total_pages' = pdf.total_pages
    /\ valid_pages' = Sections
    /\ pc' = "read_page" /\ section_idx' = 1
    /\ UNCHANGED <<pdf, locator_vars, right_lower, bounds, potential_table_lines,
                   section_results, results, word_lines, word_tables>>

\* Lines 36-55: count the pages, keep the sections whose page exists; no
\* valid page returns the empty mapping.
OpenPdf ==
    /\ pc = "open"
    /\ UNCHANGED <<cg_vars, table_vars>>
    /\ pdf.opens
    /\ total_pages' = pdf.total_pages
    /\ valid_pages' = SelectSeq(Sections, LAMBDA n : PhysicalPage(n) <= pdf.total_pages)
    /\ IF valid_pages' = <<>>
       THEN pc' = "done" /\ section_idx' = section_idx
       ELSE pc' = "read_page" /\ section_idx' = 1
    /\ UNCHANGED <<pdf, locator_vars, right_lower, bounds, potential_table_lines,
                   section_results, results, word_lines, word_tables>>

\* Lines 40-42: the file cannot be opened.
OpenPdfFails ==
    /\ pc = "open"
    /\ UNCHANGED <<cg_vars, table_vars>>
    /\ ~pdf.opens
    /\ pc' = "done"
    /\ UNCHANGED <<pdf, total_pages, valid_pages, section_idx, locator_vars, right_lower,
                   bounds, potential_table_lines, section_results, results, word_lines,
                   word_tables>>

\* Lines 64-89: a fresh section_results and the text of the two halves of
\* the page.
ReadPage ==
    /\ pc = "read_page"
    /\ UNCHANGED <<cg_vars, table_vars>>
    /\ ~pdf[section_name].unreadable
    /\ section_results' = EmptyResults(section_name)
    /\ left_text' = pdf[section_name].left
    /\ right_text' = pdf[section_name].right
    /\ pc' = "locate"
    /\ UNCHANGED <<pdf, total_pages, valid_pages, section_idx, right_lower, relevant_text,
                   column_used, found_section, bounds, potential_table_lines, results,
                   word_lines, word_tables>>

\* A failure to read the page that goes on to the next section without
\* storing anything.
ReadPageFails_NothingStored ==
    /\ pc = "read_page"
    /\ UNCHANGED <<cg_vars, table_vars>>
    /\ pdf[section_name].unreadable
    /\ IF section_idx = Len(valid_pages)
       THEN pc' = "returned" /\ section_idx' = section_idx
       ELSE pc' = "read_page" /\ section_idx' = section_idx + 1
    /\ UNCHANGED <<pdf, total_pages, valid_pages, locator_vars, right_lower, bounds,
                   potential_table_lines, section_results, results, word_lines,
                   word_tables>>

\* Lines 73-86 raise (the page cannot be read): the handler of line 301
\* stores the fresh section_results.
ReadPageFails ==
    /\ pc = "read_page"
    /\ UNCHANGED <<cg_vars, table_vars>>
    /\ pdf[section_name].unreadable
    /\ StoreAndAdvance(EmptyResults(section_name))
    /\ UNCHANGED <<pdf, total_pages, valid_pages, locator_vars, right_lower, bounds,
                   potential_table_lines, word_lines, word_tables>>

\* Lines 101-137: the locator. When it raises, the handler of line 301
\* stores section_results as it is.
Locate ==
    /\ pc = "locate"
    /\ UNCHANGED <<cg_vars, table_vars>>
    /\ LET r == LocateColumn(Chars(left_text), Chars(right_text), right_lower, section_name)
       IN  /\ right_lower' = r.right_lower
           /\ IF r.raised
              THEN /\ StoreAndAdvance(section_results)
                   /\ UNCHANGED <<relevant_text, column_used, found_section>>
              ELSE /\ relevant_text' = Str(r.relevant_text)
                   /\ column_used' = r.column_used
                   /\ found_section' = r.found_section
                   /\ pc' = "section"
                   /\ UNCHANGED <<section_idx, section_results, results>>
    /\ UNCHANGED <<pdf, total_pages, valid_pages, left_text, right_text, bounds,
                   potential_table_lines, word_lines, word_tables>>

\* Lines 140-191: the section inside the located column, or the joined
\* text as it is.
ExtractSectionText ==
    /\ pc = "section"
    /\ UNCHANGED <<cg_vars, table_vars>>
    /\ IF found_section /\ relevant_text # ""
       THEN LET x == ExtractSection(Chars(relevant_text))
            IN  /\ bounds' = [k \in DOMAIN NoBounds |-> x[k]]
                /\ section_results' = [section_results EXCEPT !.text_found = Str(x.text_found)]
       ELSE /\ bounds' = NoBounds
            /\ section_results' = [section_results EXCEPT !.text_found = relevant_text]
    /\ pc' = "tables"
    /\ UNCHANGED <<pdf, total_pages, valid_pages, section_idx, locator_vars, right_lower,
                   potential_table_lines, results, word_lines, word_tables>>

\* A table step that appends the table derived from the text only when the
\* library did not detect the same table.
ExtractTables_Deduplicated ==
    /\ pc = "tables"
    /\ UNCHANGED <<cg_vars, table_vars>>
    /\ ~pdf[section_name].tables_raise
    /\ LET lines == PotentialTableLines(Chars(section_results.text_found))
           lib == LibTables(pdf[section_name].tables)
           new == SelectSeq(TextTables(lines),
                            LAMBDA t : \A i \in 1..Len(lib) : lib[i] # t)
       IN  /\ potential_table_lines' = [i \in 1..Len(lines) |-> Str(lines[i])]
           /\ StoreAndAdvance([section_results EXCEPT !.tables = lib \o new])
    /\ UNCHANGED <<pdf, total_pages, valid_pages, locator_vars, right_lower, bounds,
                   word_lines, word_tables>>

\* Lines 194-298: the tables the library detects, then the table derived
\* from the section text; the section is stored.
ExtractTables ==
    /\ pc = "tables"
    /\ UNCHANGED <<cg_vars, table_vars>>
    /\ ~pdf[section_name].tables_raise
    /\ LET lines == PotentialTableLines(Chars(section_results.text_found))
       IN  /\ potential_table_lines' = [i \in 1..Len(lines) |-> Str(lines[i])]
           /\ StoreAndAdvance([section_results EXCEPT
                  !.tables = LibTables(pdf[section_name].tables) \o TextTables(lines)])
    /\ UNCHANGED <<pdf, total_pages, valid_pages, locator_vars, right_lower, bounds,
                   word_lines, word_tables>>

\* Line 212 raises: the handler of line 294 keeps the text, no table is
\* built.
ExtractTablesFails ==
    /\ pc = "tables"
    /\ UNCHANGED <<cg_vars, table_vars>>
    /\ pdf[section_name].tables_raise
    /\ StoreAndAdvance(section_results)
    /\ UNCHANGED <<pdf, total_pages, valid_pages, locator_vars, right_lower, bounds,
                   potential_table_lines, word_lines, word_tables>>

\* main, lines 581-583: the Word export of the results; each section with
\* a text gets its "Processed Table".
SaveResultsToWord ==
    /\ pc = "returned"
    /\ UNCHANGED <<cg_vars, table_vars>>
    /\ LET table_lines == [s \in DOMAIN results |->
                               WordTableLines(Chars(results[s].text_found))]
       IN  /\ word_lines' = [s \in DOMAIN results |->
                                [i \in 1..Len(table_lines[s]) |-> Str(table_lines[s][i])]]
           /\ word_tables' = [s \in DOMAIN results |-> WordTable(table_lines[s])]
    /\ pc' = "done"
    /\ UNCHANGED <<pdf, total_pages, valid_pages, section_idx, locator_vars, right_lower,
                   bounds, potential_table_lines, section_results, results>>

Next ==
    \/ OpenPdf
    \/ OpenPdfFails
    \/ ReadPage
    \/ ReadPageFails
    \/ Locate
    \/ ExtractSectionText
    \/ ExtractTables
    \/ ExtractTablesFails
    \/ SaveResultsToWord

Spec == Init /\ [][Next]_vars

\* ------------------------------------------------------------------------
\* extract_cg (updated_ready.py, ready_pipeline.py) as a state machine
\* ------------------------------------------------------------------------

\* The page of the loop over the candidates.
p == candidates[cand_idx]

ClassifyInit ==
    /\ pipeline \in Pipelines
    /\ pdf_file \in PdfFiles
    /\ cg_pc = "load"
    /\ pages = <<>>
    /\ candidates = <<>>
    /\ cand_idx = 0
    /\ last_call = NoCall
    /\ stage1_result = NoResult
    /\ stage2_result = NoResult
    /\ relevant_pages = <<>>
    /\ open_handles = {}
    /\ returned = NotReturned
    /\ TableIdle
    /\ ExtractionIdle

\* The next candidate, or the end of the loop.
NextCandidate ==
    IF cand_idx = Len(candidates)
    THEN cg_pc' = "finish" /\ cand_idx' = cand_idx
    ELSE cg_pc' = "stage1" /\ cand_idx' = cand_idx + 1

\* load_pdf_pages and keyword_prefilter: the texts of the pages, the
\* document handle that load_pdf_pages returns, the candidates.
LoadPdfPages ==
    /\ cg_pc = "load"
    /\ pdf_file.opens
    /\ pages' = pdf_file.pages
    /\ open_handles' = open_handles \cup {"pdf_document"}
    /\ candidates' = KeywordPrefilter(pdf_file.pages)
    /\ IF candidates' = <<>>
       THEN cg_pc' = "finish" /\ cand_idx' = cand_idx
       ELSE cg_pc' = "stage1" /\ cand_idx' = 1
    /\ UNCHANGED <<pipeline, pdf_file, last_call, stage1_result, stage2_result,
                   relevant_pages, returned, extraction_vars, table_vars>>

\* fitz.open raises: nothing handles it.
LoadPdfPagesFails ==
    /\ cg_pc = "load"
    /\ ~pdf_file.opens
    /\ cg_pc' = "raised"
    /\ returned' = Raises
    /\ UNCHANGED <<pipeline, pdf_file, pages, candidates, cand_idx, last_call,
                   stage1_result, stage2_result, relevant_pages, open_handles,
                   extraction_vars, table_vars>>

\* The stage-1 call for the page and the gate on its result.
Stage1Classify ==
    /\ cg_pc = "stage1"
    /\ \E outcome \in GatewayOutcomes :
          LET call == StageClassify(pipeline, outcome)
              gate == Stage1Gate(pipeline, call.result)
          IN  /\ last_call' = outcome
              /\ IF call.raised
                 THEN /\ cg_pc' = "raised"
                      /\ returned' = Raises
                      /\ UNCHANGED <<stage1_result, cand_idx>>
                 ELSE /\ stage1_result' = call.result
                      /\ IF gate.raised
                         THEN cg_pc' = "raised" /\ returned' = Raises /\ UNCHANGED cand_idx
                         ELSE IF gate.passes
                         THEN cg_pc' = "stage2" /\ UNCHANGED <<returned, cand_idx>>
                         ELSE NextCandidate /\ UNCHANGED returned
    /\ UNCHANGED <<pipeline, pdf_file, pages, candidates, stage2_result, relevant_pages,
                   open_handles, extraction_vars, table_vars>>

\* The stage-2 call for the page; the page is kept when the gate passes.
Stage2Classify ==
    /\ cg_pc = "stage2"
    /\ \E outcome \in GatewayOutcomes :
          LET call == StageClassify(pipeline, outcome)
              gate == Stage2Gate(pipeline, call.result)
          IN  /\ last_call' = outcome
              /\ IF call.raised
                 THEN /\ cg_pc' = "raised"
                      /\ returned' = Raises
                      /\ UNCHANGED <<stage2_result, cand_idx, relevant_pages>>
                 ELSE /\ stage2_result' = call.result
                      /\ relevant_pages' = IF gate.passes THEN Append(relevant_pages, p)
                                           ELSE relevant_pages
                      /\ NextCandidate
                      /\ UNCHANGED returned
    /\ UNCHANGED <<pipeline, pdf_file, pages, candidates, stage1_result, open_handles,
                   extraction_vars, table_vars>>

\* Some page was kept: the file is opened again, the kept pages are copied
\* into a new document, which is saved; both are closed and the list is
\* returned.
WriteRelevantPages ==
    /\ cg_pc = "finish"
    /\ relevant_pages # <<>>
    /\ open_handles' = (open_handles \cup {"pdf", "new_pdf"}) \ {"pdf", "new_pdf"}
    /\ returned' = ReturnsPages(relevant_pages)
    /\ cg_pc' = "returned"
    /\ UNCHANGED <<pipeline, pdf_file, pages, candidates, cand_idx, last_call,
                   stage1_result, stage2_result, relevant_pages, extraction_vars, table_vars>>

\* new_pdf.save raises (the output cannot be written): neither close is
\* reached.
WriteRelevantPagesFails ==
    /\ cg_pc = "finish"
    /\ relevant_pages # <<>>
    /\ open_handles' = open_handles \cup {"pdf", "new_pdf"}
    /\ returned' = Raises
    /\ cg_pc' = "raised"
    /\ UNCHANGED <<pipeline, pdf_file, pages, candidates, cand_idx, last_call,
                   stage1_result, stage2_result, relevant_pages, extraction_vars, table_vars>>

\* No page was kept: None is returned.
ReturnNone ==
    /\ cg_pc = "finish"
    /\ relevant_pages = <<>>
    /\ returned' = ReturnsNone
    /\ cg_pc' = "returned"
    /\ UNCHANGED <<pipeline, pdf_file, pages, candidates, cand_idx, last_call,
                   stage1_result, stage2_result, relevant_pages, open_handles,
                   extraction_vars, table_vars>>

ClassifyNext ==
    \/ LoadPdfPages
    \/ LoadPdfPagesFails
    \/ Stage1Classify
    \/ Stage2Classify
    \/ WriteRelevantPages
    \/ WriteRelevantPagesFails
    \/ ReturnNone

ClassifySpec == ClassifyInit /\ [][ClassifyNext]_vars

\* ------------------------------------------------------------------------
\* The main part of updated_ready.py and ready_pipeline.py, with
\* create_table, as a state machine; extract_cg is one step of it
\* ------------------------------------------------------------------------

\* table_ix is 1-based here.
current_page_num == doc_tables[table_ix]

PipelineInit ==
    /\ pipeline \in Pipelines
    /\ pdf_file \in PdfFiles
    /\ cg_pc = "main"
    /\ pages = <<>>
    /\ candidates = <<>>
    /\ cand_idx = 0
    /\ last_call = NoCall
    /\ stage1_result = NoResult
    /\ stage2_result = NoResult
    /\ relevant_pages = <<>>
    /\ open_handles = {}
    /\ returned = NotReturned
    /\ main_pc = "extract_cg"
    /\ output_pdf \in {"absent", "stale"}
    /\ converted = "nothing"
    /\ doc_tables = <<>>
    /\ table_ix = 0
    /\ previous_page_num = 0
    /\ current_page_table_count = 0
    /\ sheet_name = ""
    /\ classification_result = ""
    /\ xlsx_files = <<>>
    /\ ExtractionIdle

\* extract_cg(PDF_PATH) returns: the list of the pages kept, some of the
\* candidates in order, after writing them to OUTPUT_PDF_PATH, or None
\* without touching that file.
MainExtractCg ==
    /\ main_pc = "extract_cg"
    /\ pdf_file.opens
    /\ \E kept \in SubSeqs(KeywordPrefilter(pdf_file.pages)) :
          /\ returned' = IF kept = <<>> THEN ReturnsNone ELSE ReturnsPages(kept)
          /\ output_pdf' = IF kept = <<>> THEN output_pdf ELSE "fresh"
    /\ cg_pc' = "returned"
    /\ open_handles' = {"pdf_document"}
    /\ main_pc' = "create_table"
    /\ UNCHANGED <<pipeline, pdf_file, pages, candidates, cand_idx, last_call,
                   stage1_result, stage2_result, relevant_pages, converted, doc_tables,
                   table_ix, previous_page_num, current_page_table_count, sheet_name,
                   classification_result, xlsx_files, extraction_vars>>

\* extract_cg(PDF_PATH) raises (the file does not open, or a candidate is
\* being classified): the script ends.
MainExtractCgRaises ==
    /\ main_pc = "extract_cg"
    /\ ~pdf_file.opens \/ KeywordPrefilter(pdf_file.pages) # <<>>
    /\ returned' = Raises
    /\ cg_pc' = "raised"
    /\ open_handles' = IF pdf_file.opens THEN {"pdf_document"} ELSE {}
    /\ main_pc' = "raised"
    /\ UNCHANGED <<pipeline, pdf_file, pages, candidates, cand_idx, last_call,
                   stage1_result, stage2_result, relevant_pages, output_pdf, converted,
                   doc_tables, table_ix, previous_page_num, current_page_table_count,
                   sheet_name, classification_result, xlsx_files, extraction_vars>>

\* create_table is called: always in ready_pipeline.py, when relevant_pages
\* is not empty in updated_ready.py.
CallsCreateTable == pipeline = "ready_pipeline" \/ returned.kind = "list"

\* updated_ready.py, 'if relevant_pages:' is false: nothing more is done.
MainSkipsCreateTable ==
    /\ main_pc = "create_table"
    /\ ~CallsCreateTable
    /\ main_pc' = "done"
    /\ UNCHANGED <<cg_vars, output_pdf, converted, doc_tables, table_ix, previous_page_num,
                   current_page_table_count, sheet_name, classification_result,
                   xlsx_files, extraction_vars>>

\* The table after this one, or the end of create_table.
NextTable ==
    IF table_ix = Len(doc_tables)
    THEN main_pc' = "done" /\ table_ix' = table_ix
    ELSE main_pc' = "table" /\ table_ix' = table_ix + 1

\* create_table(OUTPUT_PDF_PATH) starts: docling converts the file that is
\* there.
CreateTable ==
    /\ main_pc = "create_table"
    /\ CallsCreateTable
    /\ output_pdf # "absent"
    /\ converted' = output_pdf
    /\ \E ts \in TableSeqs :
          /\ doc_tables' = ts
          /\ IF ts = <<>>
             THEN main_pc' = "done" /\ table_ix' = 0
             ELSE main_pc' = "table" /\ table_ix' = 1
    /\ previous_page_num' = 0
    /\ current_page_table_count' = 0
    /\ UNCHANGED <<cg_vars, output_pdf, sheet_name, classification_result, xlsx_files,
                   extraction_vars>>

\* create_table(OUTPUT_PDF_PATH) with no file there: the conversion raises.
CreateTableFails ==
    /\ main_pc = "create_table"
    /\ CallsCreateTable
    /\ output_pdf = "absent"
    /\ converted' = "absent"
    /\ main_pc' = "raised"
    /\ UNCHANGED <<cg_vars, output_pdf, doc_tables, table_ix, previous_page_num,
                   current_page_table_count, sheet_name, classification_result,
                   xlsx_files, extraction_vars>>

\* The body of the loop of create_table for one table: its name, its
\* classification, its file when the answer contains 'true'.
ClassifyAndSaveTable ==
    /\ main_pc = "table"
    /\ LET count == TableCount(previous_page_num, current_page_num, current_page_table_count)
           name == SheetName(current_page_num, count)
       IN  /\ current_page_table_count' = count
           /\ sheet_name' = name
           /\ \E outcome \in TableOutcomes :
                 LET call == ClassifyTable(pipeline, outcome)
                 IN  /\ last_call' = outcome
                     /\ IF call.raised
                        THEN /\ main_pc' = "raised"
                             /\ UNCHANGED <<classification_result, xlsx_files, table_ix,
                                            previous_page_num>>
                        ELSE /\ classification_result' = call.result
                             /\ xlsx_files' = IF SaysTrue(call.result)
                                              THEN (name :> table_ix) @@ xlsx_files
                                              ELSE xlsx_files
                             /\ previous_page_num' = current_page_num
                             /\ NextTable
    /\ UNCHANGED <<pipeline, pdf_file, cg_pc, pages, candidates, cand_idx, stage1_result,
                   stage2_result, relevant_pages, open_handles, returned, output_pdf,
                   converted, doc_tables, extraction_vars>>

PipelineNext ==
    \/ MainExtractCg
    \/ MainExtractCgRaises
    \/ MainSkipsCreateTable
    \/ CreateTable
    \/ CreateTableFails
    \/ ClassifyAndSaveTable

PipelineSpec == PipelineInit /\ [][PipelineNext]_vars

\* ------------------------------------------------------------------------
\* extyraction_code.py: extract_contingent_liabilities_tables without the
\* locator, as a state machine over the same variables
\* ------------------------------------------------------------------------

\* The characters kept before the start and after the end of the heading
\* match.
WindowBefore == 500
WindowAfter == 1500

\* The two patterns of extyraction_code.py among the start patterns: the
\* one with the prefix 'b)' and the bare one.
SimplePatterns == <<1, 3>>

\* A step 2 that strips the page text when no pattern matches.
SimpleSection_StrippedPage(page_text) ==
    LET text_lower == Lower(page_text)
        ks == {k \in 1..Len(SimplePatterns) : SearchStart(SimplePatterns[k], text_lower).found}
        m == SearchStart(SimplePatterns[Least(ks)], text_lower)
        start == Max(0, m.start - WindowBefore)
        end == Min(Len(page_text), m.end + WindowAfter)
    IN  IF ks = {} THEN [found_section |-> FALSE, text_found |-> Strip(page_text)]
        ELSE [found_section |-> TRUE, text_found |-> Strip(Slice(page_text, start, end))]

\* Step 2 of extyraction_code.py: the window around the match of the first
\* pattern that matches, stripped; the page text as it is when none does.
SimpleSection(page_text) ==
    LET text_lower == Lower(page_text)
        ks == {k \in 1..Len(SimplePatterns) : SearchStart(SimplePatterns[k], text_lower).found}
        m == SearchStart(SimplePatterns[Least(ks)], text_lower)
        start == Max(0, m.start - WindowBefore)
        end == Min(Len(page_text), m.end + WindowAfter)
    IN  IF ks = {} THEN [found_section |-> FALSE, text_found |-> page_text]
        ELSE [found_section |-> TRUE, text_found |-> Strip(Slice(page_text, start, end))]

\* table.dropna(how='all').dropna(axis=1, how='all').fillna('') for a
\* frame tabula returned.
TabulaFrame(table) ==
    LET rows == DropAllMissing(table.rows, {None})
        keep == {c \in 1..Len(table.columns) : \E r \in 1..Len(rows) : rows[r][c] # None}
        fill(row) == [c \in 1..Len(row) |-> IF row[c] = None THEN "" ELSE row[c]]
    IN  [columns |-> PickCols(table.columns, keep, 1),
         rows |-> [r \in 1..Len(rows) |-> fill(PickCols(rows[r], keep, 1))]]

\* The frames appended for the frames tabula.read_pdf returned, in order.
RECURSIVE TabulaTables(_)
TabulaTables(tables) ==
    IF tables = <<>> THEN <<>>
    ELSE (IF ~FrameEmpty(Head(tables)) /\ ~FrameEmpty(TabulaFrame(Head(tables)))
          THEN <<TabulaFrame(Head(tables))>> ELSE <<>>) \o TabulaTables(Tail(tables))

\* Step 3 of extyraction_code.py: tabula, and the tables of pdfplumber when
\* tabula raises; nothing when both raise.
SimpleTables(page) ==
    IF ~page.tabula.raises THEN TabulaTables(page.tabula.tables)
    ELSE IF ~page.plumber.raises THEN LibTables(page.plumber.tables)
    ELSE <<>>

\* The files extyraction_code.py is run on: the number of pages, and for
\* the two pages read their text (extract_text() gives None for a page
\* without text) and what the two table libraries do.
LongPage == LineOfLen(520) \o "\nb) Contingent Liabilities\n" \o LineOfLen(1600)
PaddedPage == "  Revenue from operations  1,234\n"

SimplePage(text, tabula, plumber) ==
    [text |-> text, text_none |-> FALSE, tabula |-> tabula, plumber |-> plumber]
NoText(page) == [page EXCEPT !.text_none = TRUE]
LibraryRaises == [raises |-> TRUE, tables |-> <<>>]
LibraryGives(tables) == [raises |-> FALSE, tables |-> tables]

TabulaPool ==
    { [columns |-> <<"Particulars", "Amount">>, rows |-> <<<<"Claims", "120">>, <<None, None>> >>],
      [columns |-> <<"Particulars", "Unnamed: 1">>, rows |-> <<<<"Claims", None>> >>],
      [columns |-> <<"Particulars", "Amount">>, rows |-> <<<<None, None>> >>],
      [columns |-> <<"Particulars", "Amount">>, rows |-> <<>>] }

SimplePages ==
    {SimplePage(t, LibraryGives(<<>>), LibraryGives(<<>>)) :
         t \in {"", Plain, PaddedPage, BothC, EndToEnd, ShortTail, HeadingOnly, LongPage}}
        \cup {SimplePage(Plain, LibraryGives(<<f>>), LibraryGives(<<>>)) : f \in TabulaPool}
        \cup {SimplePage(BothC, LibraryRaises, LibraryGives(<<t>>)) : t \in LibTablePool}
        \cup {SimplePage(BothC, LibraryRaises, LibraryRaises),
              NoText(SimplePage("", LibraryGives(<<>>), LibraryGives(<<>>)))}

SimpleDocument(n, c, s) ==
    [opens |-> TRUE, total_pages |-> n, consolidated_page |-> c, standalone_page |-> s]

SimpleDocuments ==
    {[opens |-> FALSE, total_pages |-> 0,
      consolidated_page |-> SimplePage("", LibraryGives(<<>>), LibraryGives(<<>>)),
      standalone_page |-> SimplePage("", LibraryGives(<<>>), LibraryGives(<<>>))]}
        \cup {SimpleDocument(LogicalPage("standalone_page"), c, s) :
                 c \in SimplePages, s \in {SimplePage(Plain, LibraryGives(<<>>), LibraryGives(<<>>)),
                                           SimplePage(BothC, LibraryGives(<<>>), LibraryGives(<<>>))}}
        \cup {SimpleDocument(n, c, SimplePage("", LibraryGives(<<>>), LibraryGives(<<>>))) :
                 n \in {LogicalPage("consolidated_page") - 1, LogicalPage("consolidated_page")},
                 c \in {SimplePage(Plain, LibraryGives(<<>>), LibraryGives(<<>>)),
                        SimplePage(BothC, LibraryGives(<<>>), LibraryGives(<<>>))}}

\* section_results as the loop body of extyraction_code.py creates it.
SimpleEmptyResults(section) ==
    [page_number |-> LogicalPage(section), text_found |-> "", tables |-> <<>>]

\* The page of the section can be read: the file opens, pdf.pages has the
\* index, the page has text.
SimpleReadable ==
    /\ pdf.opens
    /\ LogicalPage(section_name) <= pdf.total_pages
    /\ ~pdf[section_name].text_none

SimpleInit ==
    /\ pdf \in SimpleDocuments
    /\ pc = "simple"
    /\ total_pages = 0
    /\ valid_pages = Sections
    /\ section_idx = 1
    /\ left_text = ""
    /\ right_text = ""
    /\ right_lower = Unbound
    /\ relevant_text = ""
    /\ column_used = ""
    /\ found_section = FALSE
    /\ bounds = NoBounds
    /\ potential_table_lines = <<>>
    /\ section_results = SimpleEmptyResults("consolidated_page")
    /\ results = <<>>
    /\ word_lines = <<>>
    /\ word_tables = <<>>
    /\ CgIdle

\* results[section_name] = section_results, then the next section or the
\* return.
SimpleStore(sec_results) ==
    /\ section_results' = sec_results
    /\ results' = (section_name :> sec_results) @@ results
    /\ IF section_idx = Len(valid_pages)
       THEN pc' = "simple_done" /\ section_idx' = section_idx
       ELSE pc' = "simple" /\ section_idx' = section_idx + 1

\* The body of the loop for a page that can be read: the section text,
\* then the tables.
SimpleProcessSection ==
    /\ pc = "simple"
    /\ SimpleReadable
    /\ LET x == SimpleSection(Chars(pdf[section_name].text))
       IN  /\ found_section' = x.found_section
           /\ SimpleStore([page_number |-> LogicalPage(section_name),
                           text_found |-> Str(x.text_found),
                           tables |-> SimpleTables(pdf[section_name])])
    /\ UNCHANGED <<pdf, total_pages, valid_pages, left_text, right_text, right_lower,
                   relevant_text, column_used, bounds, potential_table_lines, word_lines,
                   word_tables, cg_vars, table_vars>>

\* Step 1 raises (the file does not open, the page index is out of range,
\* the page has no text): the handler stores the fresh section_results.
SimpleProcessSectionFails ==
    /\ pc = "simple"
    /\ ~SimpleReadable
    /\ SimpleStore(SimpleEmptyResults(section_name))
    /\ UNCHANGED <<pdf, total_pages, valid_pages, locator_vars, right_lower, bounds,
                   potential_table_lines, word_lines, word_tables, cg_vars, table_vars>>

SimpleNext ==
    \/ SimpleProcessSection
    \/ SimpleProcessSectionFails

\* Either of the two extraction programs.
ExtractorsInit == Init \/ SimpleInit

ExtractorsNext == Next \/ SimpleNext

ExtractorsSpec == ExtractorsInit /\ [][ExtractorsNext]_vars

\* ------------------------------------------------------------------------
\* Properties of the locator
\* ------------------------------------------------------------------------

\* The column text holds 'contingent liabilit', whatever the case.
ColumnHasToken(text) == Contains(Lower(Chars(text)), SubHeading)

\* The column text holds the main heading of the section and the token.
ColumnHasBoth(text, section) ==
    /\ ColumnHasToken(text)
    /\ Contains(Lower(Chars(text)), MainHeading(section))

\* Both columns joined as line 134 joins them.
Joined(left, right) == left \o "\n\n" \o right

\* C1: when a column of the page holds both the main heading and the token
\* 'contingent liabilit', the locator completes and relevant_text is exactly
\* the text of a column that holds both, the left one when it qualifies:
\* never the other column, never the two joined.
C1_SelectsColumnWithBoth ==
    [][(/\ pc = "locate"
        /\ \/ ColumnHasBoth(left_text, section_name)
           \/ ColumnHasBoth(right_text, section_name))
       => /\ pc' = "section"
          /\ found_section'
          /\ \/ /\ column_used' = "LEFT"
                /\ relevant_text' = left_text
                /\ ColumnHasBoth(left_text, section_name)
             \/ /\ column_used' = "RIGHT"
                /\ relevant_text' = right_text
                /\ ColumnHasBoth(right_text, section_name)
                /\ ~ColumnHasBoth(left_text, section_name)]_vars

\* The right column was selected for holding both headings although the
\* left column holds the token.
C1_Witness ==
    /\ pc = "section"
    /\ column_used = "RIGHT"
    /\ relevant_text = right_text
    /\ ColumnHasBoth(right_text, section_name)
    /\ ColumnHasToken(left_text)
    /\ ~ColumnHasBoth(left_text, section_name)

\* C2: the three levels are tried in order. A column that holds the token
\* without the main heading is selected only when no column holds both; the
\* joined text (column_used = BOTH, found_section false) is used only when
\* neither column holds the token.
C2_LevelsInOrder ==
    [][(pc = "locate" /\ pc' = "section")
       => /\ column_used' \in {"LEFT", "RIGHT", "BOTH"}
          /\ (column_used' \in {"LEFT", "RIGHT"})
                => /\ found_section'
                   /\ relevant_text' = IF column_used' = "LEFT" THEN left_text ELSE right_text
                   /\ ColumnHasToken(relevant_text')
                   /\ ~ColumnHasBoth(relevant_text', section_name)
                         => /\ ~ColumnHasBoth(left_text, section_name)
                            /\ ~ColumnHasBoth(right_text, section_name)
          /\ (column_used' = "BOTH")
                => /\ ~found_section'
                   /\ relevant_text' = Joined(left_text, right_text)
                   /\ ~ColumnHasToken(left_text)
                   /\ ~ColumnHasToken(right_text)]_vars

\* The right column was selected at the second level: it holds the token
\* without the main heading, and the left column does not hold the token.
C2_Witness ==
    /\ pc = "section"
    /\ column_used = "RIGHT"
    /\ ColumnHasToken(right_text)
    /\ ~ColumnHasBoth(right_text, section_name)
    /\ ~ColumnHasToken(left_text)

RestAfterHeading ==
    Slice(Chars(relevant_text), bounds.match_end + SearchOffset, Len(relevant_text))

\* No lettered sub-item and no numbered note matches the lowered rest.
NoItemOrNoteAfterHeading ==
    \A k \in 1..(NumEndPatterns - 1) : EndHits(k, Lower(RestAfterHeading)) = {}

C5_CapsHeadingEndsSection ==
    (pc = "tables" /\ bounds.section_extracted)
        => LET caps == EndHits(NumEndPatterns, RestAfterHeading)
           IN  (NoItemOrNoteAfterHeading /\ caps # {})
                  => bounds.end = bounds.match_end + SearchOffset + Least(caps) - 1

\* The results of the file whose first page has the text of the scenario in
\* its left column, an empty right column and no table the library detects.
EndToEndRun ==
    /\ pc \in {"returned", "done"}
    /\ "consolidated_page" \in DOMAIN results
    /\ pdf.consolidated_page = Page(EndToEnd, "", <<>>)

\* C6 as stated: for the three lines of the scenario the section starts at
\* 'b) Contingent', includes both data lines, and the table derived from the
\* text has the two rows of the scenario under Description, Amount.
C6_EndToEndTable ==
    EndToEndRun
        => /\ results["consolidated_page"].text_found = EndToEnd
           /\ results["consolidated_page"].tables =
                 << [columns |-> <<"Description", "Amount">>,
                     rows |-> << <<"Claims against company", "₹ 10,00,000">>,
                                 <<"Grand Total", "₹ 10,00,000">> >>] >>

\* ------------------------------------------------------------------------
\* Properties of the tables
\* ------------------------------------------------------------------------

\* A table of the library that lines 214-222 keep: a header, and a data row
\* with a cell that is not None.
Retainable(table_data) ==
    /\ Len(table_data) > 1
    /\ \E r \in 2..Len(table_data) :
          \E c \in 1..Len(table_data[r]) : table_data[r][c] # None

\* The number of tables of the page of section s that are kept.
NumLibKept(s) ==
    Cardinality({i \in DOMAIN pdf[s].tables : Retainable(pdf[s].tables[i])})

\* The positions, in the tables of section s, of the text-derived tables:
\* they are appended after the tables of the library.
TextDerived(s) == (NumLibKept(s) + 1)..Len(results[s].tables)

\* The number of cells of the row that are not empty.
NonEmptyCells(row) == Cardinality({c \in 1..Len(row) : row[c] # ""})

\* C7: every row of every text-derived table has as many cells as the table
\* has columns; the rows are padded at their end with empty strings up to
\* the longest row, whose length is the number of column names.
C7_RowsMatchColumns ==
    \A s \in DOMAIN results :
        \A i \in TextDerived(s) :
            LET t == results[s].tables[i]
            IN  /\ \A r \in 1..Len(t.rows) : Len(t.rows[r]) = Len(t.columns)
                /\ \E r \in 1..Len(t.rows) : t.rows[r][Len(t.columns)] # ""
                /\ \A r \in 1..Len(t.rows) :
                      \A c, d \in 1..Len(t.rows[r]) :
                          (c < d /\ t.rows[r][c] = "") => t.rows[r][d] = ""

\* A text-derived table of four columns with a row of two cells padded by
\* two empty strings.
C7_Witness ==
    \E s \in DOMAIN results :
        \E i \in TextDerived(s) :
            LET t == results[s].tables[i]
            IN  /\ Len(t.columns) = 4
                /\ \E r \in 1..Len(t.rows) :
                      /\ Len(t.rows[r]) = 4
                      /\ t.rows[r][2] # ""
                      /\ t.rows[r][3] = ""
                      /\ t.rows[r][4] = ""

\* The line holds a digit, a currency symbol (₹, Rs.) or an amount keyword
\* (crore, lakh).
HasMoneyMark(line) ==
    LET t == Chars(line)
    IN  \/ \E i \in 1..Len(t) : t[i] \in Digits \cup {Rupee}
        \/ Contains(t, KwRs)
        \/ Contains(Lower(t), KwCrore)
        \/ Contains(Lower(t), KwLakh)

\* C8 as stated: in the text-table step and in the 'Processed Table' step of
\* save_results_to_word, a line without digit, currency symbol and amount
\* keyword is never retained as a table row.
C8_NoRowWithoutAmount ==
    /\ \A i \in DOMAIN potential_table_lines : HasMoneyMark(potential_table_lines[i])
    /\ \A s \in DOMAIN word_lines :
          \A i \in DOMAIN word_lines[s] : HasMoneyMark(word_lines[s][i])

\* C9 as stated: every table of a section, text-derived or detected by the
\* library, has a row with two or more non-empty cells.
C9_EveryTableHasTwoCellRow ==
    \A s \in DOMAIN results :
        \A i \in DOMAIN results[s].tables :
            \E r \in 1..Len(results[s].tables[i].rows) :
                NonEmptyCells(results[s].tables[i].rows[r]) >= 2

\* The section went through the table step.
TablesBuilt(s) ==
    /\ ~pdf[s].unreadable
    /\ ~pdf[s].tables_raise
    /\ results[s].text_found # ""

\* C9: a text-derived table is appended only with a row of two or more
\* non-empty cells (every one of its rows has them). A table of the library
\* is kept whenever it has a header and a data row with a cell that is not
\* None, with no condition on the number of non-empty cells: its frame has
\* a row and a column. At most one text-derived table follows the tables of
\* the library.
C9_TwoCellRowsInTextTables ==
    \A s \in DOMAIN results :
        /\ ~TablesBuilt(s) => results[s].tables = <<>>
        /\ TablesBuilt(s)
              => /\ Len(results[s].tables) \in {NumLibKept(s), NumLibKept(s) + 1}
                 /\ \A i \in 1..NumLibKept(s) :
                       /\ Len(results[s].tables[i].rows) >= 1
                       /\ Len(results[s].tables[i].columns) >= 1
                 /\ \A i \in TextDerived(s) :
                       /\ Len(results[s].tables[i].rows) >= 1
                       /\ \A r \in 1..Len(results[s].tables[i].rows) :
                             NonEmptyCells(results[s].tables[i].rows[r]) >= 2

\* A table of the library was kept with one column, and a text-derived
\* table follows it.
C9_Witness ==
    \E s \in DOMAIN results :
        /\ NumLibKept(s) = 1
        /\ Len(results[s].tables) = 2
        /\ Len(results[s].tables[1].columns) = 1
        /\ NonEmptyCells(results[s].tables[2].rows[1]) >= 2

\* The lines of the section text, trimmed.
TrimmedLines(text) ==
    LET lines == SplitOn(Chars(text), "\n")
    IN  {Str(Strip(lines[i])) : i \in 1..Len(lines)}

\* The potential table lines after the table step are the trimmed lines of
\* the section text whose length lies in lo..hi, that hold an amount and
\* none of the header words.
KeepsLinesOfLength(lo, hi) ==
    (pc = "tables" /\ ~pdf[section_name].tables_raise)
        => \A line \in TrimmedLines(section_results.text_found) :
              (\E i \in DOMAIN potential_table_lines' : potential_table_lines'[i] = line)
                 <=> /\ Len(line) \in lo..hi
                     /\ HasAmount(Chars(line))
                     /\ ~IsHeaderLike(Chars(line))

\* C10 as stated: a trimmed line is kept exactly when its length is within
\* 10..200, ends included, it holds an amount and none of the header words.
C10_KeptFromTenToTwoHundred == [][KeepsLinesOfLength(MinLineLen, MaxLineLen)]_vars

\* C10: a trimmed line is kept exactly when its length is within 11..199
\* (10 < len < 200), it holds a currency symbol, 'crore'/'lakh' or a numeric
\* token, and none of the header words; lines of length exactly 10 and
\* exactly 200 are not kept.
C10_KeptBetweenTenAndTwoHundred ==
    [][KeepsLinesOfLength(MinLineLen + 1, MaxLineLen - 1)]_vars

\* The lines of 11 and 199 characters were kept, those of 10 and 200 were
\* in the section text and were not.
C10_Witness ==
    /\ pc \in {"returned", "done"}
    /\ \A n \in {MinLineLen, MinLineLen + 1, MaxLineLen - 1, MaxLineLen} :
          \E line \in TrimmedLines(section_results.text_found) :
              Len(line) = n /\ HasAmount(Chars(line)) /\ ~IsHeaderLike(Chars(line))
    /\ {Len(potential_table_lines[i]) : i \in DOMAIN potential_table_lines}
          = {MinLineLen + 1, MaxLineLen - 1}

\* C11 as stated: every potential table line contributes a row to the
\* text-derived table, also a line that the split on runs of two or more
\* whitespace characters leaves in fewer than two cells; no line is dropped.
C11_EveryLineContributesRow ==
    [][(pc = "tables" /\ ~pdf[section_name].tables_raise)
       => LET tabs == results'[section_name].tables
              k == NumLibKept(section_name)
          IN  Len(potential_table_lines') > 0
                 => /\ Len(tabs) = k + 1
                    /\ Len(tabs[k + 1].rows) = Len(potential_table_lines')]_vars

\* The greatest number of non-empty cells in a row of the table.
WidestRow(t) ==
    CHOOSE n \in 0..Len(t.columns) :
        /\ \A r \in 1..Len(t.rows) : NonEmptyCells(t.rows[r]) <= n
        /\ n = 0 \/ \E r \in 1..Len(t.rows) : NonEmptyCells(t.rows[r]) = n

\* C12: the column names of a text-derived table depend on the greatest
\* number of cells in a row only: 2 gives Description, Amount; 3 gives
\* Description, Current Year, Previous Year; 4 adds Notes; any other count n
\* gives Column_1 .. Column_n.
C12_NamesFromColumnCount ==
    \A s \in DOMAIN results :
        \A i \in TextDerived(s) :
            LET t == results[s].tables[i]
                n == WidestRow(t)
            IN  t.columns =
                    CASE n = 2 -> <<"Description", "Amount">>
                      [] n = 3 -> <<"Description", "Current Year", "Previous Year">>
                      [] n = 4 -> <<"Description", "Current Year", "Previous Year", "Notes">>
                      [] OTHER -> [c \in 1..n |-> "Column_" \o Str(Decimal(c))]

\* A text-derived table whose widest row has five cells; its columns are
\* named Column_1 .. Column_5.
C12_Witness ==
    \E s \in DOMAIN results :
        \E i \in TextDerived(s) :
            LET t == results[s].tables[i]
            IN  /\ WidestRow(t) = 5
                /\ t.columns = <<"Column_1", "Column_2", "Column_3", "Column_4", "Column_5">>

\* C13: the tables of a section are every kept table of the library, in the
\* order of detection, followed by the text-derived table when the section
\* text yields one; nothing is removed as a duplicate, and neither list
\* depends on the other.
C13_UnionWithoutDeduplication ==
    \A s \in DOMAIN results :
        TablesBuilt(s)
            => results[s].tables =
                   LibTables(pdf[s].tables)
                       \o TextTables(PotentialTableLines(Chars(results[s].text_found)))

\* The library detected the table that the text yields as well: the section
\* holds it twice.
C13_Witness ==
    \E s \in DOMAIN results :
        /\ NumLibKept(s) = 1
        /\ Len(results[s].tables) = 2
        /\ results[s].tables[1] = results[s].tables[2]

\* C14 as stated, for extraction_code: when the table detection of the
\* library raises, the section text already extracted is kept and the
\* text-derived table is still built from it.
C14_TextTableSurvivesLibraryFailure ==
    \A s \in DOMAIN results :
        (pdf[s].tables_raise /\ results[s].text_found # "")
            => results[s].tables =
                   TextTables(PotentialTableLines(Chars(results[s].text_found)))

\* ------------------------------------------------------------------------
\* Properties of the two-stage classification
\* ------------------------------------------------------------------------

\* What the model answered, read as the JSON object the prompts ask for.
Answer(response) == ParseLlamaJsonResponse(Chars(response))

\* The answer classifies the page as Relevant (and not as Non Relevant).
AnswersRelevant(response) == SaysRelevant(Answer(response))

\* The answer carries a numeric confidence of at least 0.85.
AnswersConfident(response) ==
    LET confidence == Get(Answer(response), "confidence", NoValue)
    IN  /\ confidence.kind = "number"
        /\ AtLeastThreshold(confidence.mant, confidence.places)

\* The step ends the processing of the page of the loop without raising.
PageDecided ==
    /\ cg_pc \in {"stage1", "stage2"}
    /\ cg_pc' \in {"stage1", "finish"}

\* C15: in extract_cg of both pipelines, a candidate page is appended to
\* relevant_pages exactly when stage 1 answered Relevant (not Non Relevant)
\* with a confidence of at least 0.85 and stage 2 answered Relevant; only
\* pages that passed the keyword prefilter are ever appended.
C15_KeptIffBothStagesRelevant ==
    [][PageDecided =>
          /\ relevant_pages' \in {relevant_pages, Append(relevant_pages, p)}
          /\ \E i \in 1..Len(KeywordPrefilter(pages)) : KeywordPrefilter(pages)[i] = p
          /\ relevant_pages' = Append(relevant_pages, p)
                <=> /\ AnswersRelevant(stage1_result'.response)
                    /\ AnswersConfident(stage1_result'.response)
                    /\ cg_pc = "stage2"
                    /\ AnswersRelevant(stage2_result'.response)]_vars

\* The results of the stage calls made so far in updated_ready.py, each
\* the text of the call and the value parse_llama_json_response made of it.
ParsedResults ==
    IF pipeline = "updated_ready" THEN {stage1_result, stage2_result} \ {NoResult} ELSE {}

\* The text is a proper prefix of a complete answer and no JSON itself.
IsProperPrefix(t, full) == Len(t) < Len(full) /\ SubSeq(full, 1, Len(t)) = t

Truncated(response) ==
    /\ \E full \in {RHigh, RFullArray} : IsProperPrefix(Chars(response), Chars(full))
    /\ ~JsonLoads(Chars(response)).ok

RelevantObject(confidence_mant, confidence_places) ==
    JsonValue("object", "", 0, 0,
              <<[key |-> "relevance", val |-> JsonValue("string", "Relevant", 0, 0, <<>>)],
                [key |-> "confidence",
                 val |-> JsonValue("number", "", confidence_mant, confidence_places, <<>>)]>>)

\* The value is the directly parsed JSON if the text parses, else the parse
\* of the span from the first '{' to the last '}' if that parses, else the
\* default object.
ThreeAttempts(r) ==
    LET t == Chars(r.response)
        span == BraceSpan(t)
    IN  /\ JsonLoads(t).ok => r.value = JsonLoads(t).val
        /\ ~JsonLoads(t).ok /\ span # <<>> /\ JsonLoads(span).ok => r.value = JsonLoads(span).val
        /\ ~JsonLoads(t).ok /\ (span = <<>> \/ ~JsonLoads(span).ok)
              => r.value = DefaultClassification

C17_AnswersNeverAbort ==
    [][(cg_pc \in {"stage1", "stage2"} /\ ~last_call'.fails)
          => (cg_pc' # "raised" /\ returned' = NotReturned)]_vars

\* C18: a failed call of the model gateway is caught and counts as a
\* rejection of the page: the page is not appended to relevant_pages,
\* extract_cg does not raise and the scan goes on to the next candidate.
C18_FailedCallRejectsPage ==
    [][(cg_pc \in {"stage1", "stage2"} /\ last_call'.fails)
          => (/\ relevant_pages' = relevant_pages
              /\ returned' = NotReturned
              /\ NextCandidate)]_vars

\* ------------------------------------------------------------------------
\* Properties of the document handles
\* ------------------------------------------------------------------------

\* C19: when extract_cg has returned or raised, no PDF document that the
\* call opened (by load_pdf_pages or by extract_cg itself) is still open.
C19_NoHandleLeftOpen ==
    cg_pc \in {"returned", "raised"} => open_handles = {}

\* ------------------------------------------------------------------------
\* Properties of the returned mapping
\* ------------------------------------------------------------------------

\* extract_contingent_liabilities_tables has returned for a file that
\* opened.
ExtractionReturned == pc \in {"returned", "done"} /\ pdf.opens

\* The sections whose configured physical page is past the end of the file.
PastTheEnd == {s \in {"consolidated_page", "standalone_page"} : PhysicalPage(s) > pdf.total_pages}

\* What the steps make of the first page when nothing raises: the located
\* column, the section inside it, the library tables and the text table.
FirstPageRuns ==
    /\ ~pdf.consolidated_page.unreadable
    /\ ~pdf.consolidated_page.tables_raise
    /\ ~LocateColumn(Chars(pdf.consolidated_page.left), Chars(pdf.consolidated_page.right),
                     Unbound, "consolidated_page").raised

FirstPageText ==
    LET r == LocateColumn(Chars(pdf.consolidated_page.left),
                          Chars(pdf.consolidated_page.right), Unbound, "consolidated_page")
    IN  IF r.found_section /\ r.relevant_text # <<>>
        THEN ExtractSection(r.relevant_text).text_found
        ELSE r.relevant_text

FirstPageResults ==
    [logical_page |-> LogicalPage("consolidated_page"),
     physical_page |-> PhysicalPage("consolidated_page"),
     text_found |-> Str(FirstPageText),
     tables |-> LibTables(pdf.consolidated_page.tables)
                    \o TextTables(PotentialTableLines(FirstPageText))]

\* C20 as stated: a section whose physical page is past the end of the
\* file has an entry with empty text and no tables in the returned mapping.
C20_EmptyEntryForMissingPage ==
    ExtractionReturned =>
        \A s \in PastTheEnd :
            /\ s \in DOMAIN results
            /\ results[s].text_found = ""
            /\ results[s].tables = <<>>

\* C20, amended: in extraction_code.py a section whose physical page is
\* past the end of the file has no entry in the returned mapping, which
\* holds the sections whose page exists and nothing else (it is empty when
\* no page exists); the first section, when only its page exists, is
\* extracted as it is from a complete file.
C20_NoEntryForMissingPage ==
    ExtractionReturned =>
        /\ DOMAIN results = {"consolidated_page", "standalone_page"} \ PastTheEnd
        /\ PastTheEnd = {"standalone_page"} /\ FirstPageRuns
              => results["consolidated_page"] = FirstPageResults

\* The file ends before the page of the second section; the first section
\* was extracted, with a table, and is the only entry.
C20_Witness ==
    /\ ExtractionReturned
    /\ PastTheEnd = {"standalone_page"}
    /\ DOMAIN results = {"consolidated_page"}
    /\ results["consolidated_page"].text_found # ""
    /\ results["consolidated_page"].tables # <<>>

\* ------------------------------------------------------------------------
\* Properties of the section text
\* ------------------------------------------------------------------------

\* No pattern of extyraction_code.py matches the lowered text.
NoSimplePattern(text) ==
    \A k \in 1..Len(SimplePatterns) : ~SearchStart(SimplePatterns[k], Lower(text)).found

SectionsDone ==
    IF pc \in {"returned", "done"} THEN {valid_pages[i] : i \in 1..Len(valid_pages)}
    ELSE {valid_pages[i] : i \in 1..(section_idx - 1)}

\* Reading the text or the tables of the page of section s raises.
SectionRaises(s) == pdf[s].unreadable \/ pdf[s].tables_raise

\* C22: once the file has opened, every section whose page is valid gets
\* its entry in the mapping whatever raises while its text or tables are
\* read; the loop goes on to the following section and the function
\* returns the mapping (nothing propagates).
C22_EntryForEveryValidSection ==
    pdf.opens /\ pc \notin {"open", "simple", "simple_done"} =>
        /\ \A s \in SectionsDone :
              /\ s \in DOMAIN results
              /\ results[s].physical_page = PhysicalPage(s)
              /\ pdf[s].unreadable => results[s].text_found = "" /\ results[s].tables = <<>>
        /\ pc \in {"read_page", "locate", "section", "tables", "returned", "done"}
        /\ pc \in {"read_page", "locate", "section", "tables"} => section_idx \in 1..Len(valid_pages)

\* The first page could not be read; the second section was extracted all
\* the same and the mapping has both entries.
C22_Witness ==
    /\ pc = "returned"
    /\ SectionRaises("consolidated_page")
    /\ DOMAIN results = {"consolidated_page", "standalone_page"}
    /\ results["standalone_page"].text_found # ""

\* C23: the section starts at the first occurrence of the start pattern of
\* the highest priority that matches anywhere in the text ('b) ...', then
\* '(b) ...', then the bare heading), also when a pattern of lower
\* priority matches earlier in the text.
C23_StartByPatternPriority ==
    [][(pc = "section" /\ found_section /\ relevant_text # "") =>
          LET text_lower == Lower(Chars(relevant_text))
              matching == {k \in 1..3 : SearchStart(k, text_lower).found}
          IN  /\ bounds'.section_extracted <=> matching # {}
              /\ matching # {} =>
                    /\ bounds'.pattern \in matching
                    /\ \A k \in matching : bounds'.pattern <= k
                    /\ bounds'.start = SearchStart(bounds'.pattern, text_lower).start
                    /\ \A i \in 0..(bounds'.start - 1) :
                          PrefixedHeadingEndAt(text_lower, i + 1,
                                               StartPrefixes[bounds'.pattern]) = 0]_vars

\* The section was cut at a match of the first pattern although the bare
\* heading occurs earlier in the text.
C23_Witness ==
    /\ pc = "tables"
    /\ bounds.section_extracted
    /\ bounds.pattern = 1
    /\ SearchStart(3, Lower(Chars(relevant_text))).start < bounds.start

\* The offsets of text_lower, from offset from on, at which some end
\* pattern matches.
EndPatternOffsets(text_lower, from) ==
    {i - 1 : i \in {j \in 1..Len(text_lower) :
                       /\ j - 1 >= from
                       /\ \E k \in 1..NumEndPatterns :
                             j - from \in EndHits(k, Slice(text_lower, from, Len(text_lower)))}}

\* C24: the section ends at the earliest offset, 50 characters or more
\* after the end of the heading match, at which any of the next-heading
\* patterns matches (at the end of the text when none does): the section
\* never extends past the next heading.
C24_EndsAtEarliestNextHeading ==
    [][(pc = "section" /\ found_section /\ relevant_text # "" /\ bounds'.section_extracted) =>
          LET text_lower == Lower(Chars(relevant_text))
              offsets == EndPatternOffsets(text_lower, bounds'.match_end + SearchOffset)
          IN  bounds'.end = IF offsets = {} THEN Len(text_lower) ELSE Least(offsets)]_vars

\* ------------------------------------------------------------------------
\* Properties of the Word export
\* ------------------------------------------------------------------------

\* The line holds a digit or a currency marker.
HasDigitOrCurrency(line) ==
    \/ \E i \in 1..Len(line) : line[i] \in Digits \cup {Rupee}
    \/ Contains(Lower(line), KwRsLower)

\* The lines a scan collects that keeps what save_results_to_word keeps
\* and stops after the first line with 'total' and a digit or a currency
\* marker.
RECURSIVE ScanToTotalWithAmount(_)
ScanToTotalWithAmount(lines) ==
    IF lines = <<>> THEN <<>>
    ELSE LET line == Strip(Head(lines))
         IN  IF line = <<>> THEN ScanToTotalWithAmount(Tail(lines))
             ELSE (IF HasFinancialData(line) /\ ~IsWordHeader(line)
                   THEN <<Str(line)>> ELSE <<>>)
                  \o (IF Contains(Lower(line), KwTotal) /\ HasDigitOrCurrency(line)
                      THEN <<>> ELSE ScanToTotalWithAmount(Tail(lines)))

\* C25: the scan of save_results_to_word over the lines of a section stops
\* at the first line that contains 'total' together with a digit or a
\* currency marker and at no earlier line (a line with 'total' and neither
\* does not end it); no line after the terminating line is collected.
C25_ScanStopsAtTotalWithAmount ==
    pc = "done" =>
        \A s \in DOMAIN word_lines :
            word_lines[s] = ScanToTotalWithAmount(SplitOn(Chars(results[s].text_found), "\n"))

\* ------------------------------------------------------------------------
\* C26
\* ------------------------------------------------------------------------

\* C26: create_table writes a table to a spreadsheet file only when the
\* answer of the model for that table is 'True'; an answer that says 'False',
\* with or without an explanation after it, leaves the table unwritten.
C26_WrittenOnlyOnTrue ==
    [][(main_pc = "table" /\ xlsx_files' # xlsx_files)
          => (classification_result' = AnswerTrue)]_vars

\* ------------------------------------------------------------------------
\* C27
\* ------------------------------------------------------------------------

\* Stage 1 answered Relevant (and not Non Relevant) with a confidence of at
\* least 0.85.
Stage1SaysConfidentRelevant(result) ==
    AnswersRelevant(result.response) /\ AnswersConfident(result.response)

\* C27: in extract_cg, stage_2_classify is called for a page at most once and
\* only after stage_1_classify has answered Relevant with a confidence of at
\* least 0.85 for that page; a page that stage 1 reports as Non Relevant, at
\* whatever confidence, gets no stage-2 call; the pages are classified one
\* after the other, in the order of the prefilter.
C27_Stage2OnlyAfterConfidentRelevant ==
    [][/\ cg_pc' = "stage2"
            => /\ cg_pc = "stage1"
               /\ cand_idx' = cand_idx
               /\ Stage1SaysConfidentRelevant(stage1_result')
       /\ cg_pc = "stage2" => stage1_result' = stage1_result
       /\ cand_idx' \in {cand_idx, cand_idx + 1}
       /\ cand_idx' = cand_idx + 1
            => cg_pc' = "stage1" /\ candidates' = KeywordPrefilter(pages')]_vars

\* ------------------------------------------------------------------------
\* C30
\* ------------------------------------------------------------------------

\* One of the three heading patterns matches the lowered text at its first
\* character.
BeginsAtHeading(text) ==
    \E k \in 1..3 :
       LET m == SearchStart(k, Lower(Chars(text)))
       IN  m.found /\ m.start = 0

\* C30: in extraction_code.py, whenever the locator reports the section as
\* found, the search for the heading succeeds (section_extracted is true), the
\* whole column is never used as the text, and text_found begins at a match
\* of a contingent-liabilities heading.
C30_FoundSectionBeginsAtHeading ==
    [][(pc = "section" /\ found_section) =>
          /\ bounds'.section_extracted
          /\ BeginsAtHeading(section_results'.text_found)]_vars

\* ------------------------------------------------------------------------
\* C28
\* ------------------------------------------------------------------------

\* create_table has been called: docling was given the path.
CreateTableCalled == converted # "nothing"

\* C28: in a run of the LLM pipeline, create_table is called on
\* OUTPUT_PDF_PATH only after extract_cg has written the filtered PDF in
\* that run; when extract_cg returns None, having written no file,
\* create_table is not called.
C28_CreateTableOnlyAfterWrite ==
    CreateTableCalled => returned.kind = "list" /\ converted = "fresh"

\* ------------------------------------------------------------------------
\* C29
\* ------------------------------------------------------------------------

\* The 1-based position of the table i among the tables of its page.
PositionOnPage(i) == Cardinality({j \in 1..i : doc_tables[j] = doc_tables[i]})

\* The tables of each page follow one another in doc_tables.
TablesContiguous ==
    \A i \in 1..Len(doc_tables) : \A j \in i..Len(doc_tables) :
       doc_tables[i] = doc_tables[j] => \A k \in i..j : doc_tables[k] = doc_tables[i]

\* C29: in create_table, whatever the pages of the tables found are,
\* contiguous per page or not, the names 'Page_no_<page>_table_<k>' given to
\* distinct tables are pairwise distinct, k being the 1-based position of
\* the table among the tables of its page, so that no exported file
\* overwrites another.
C29_NamesPairwiseDistinct ==
    [][main_pc = "table" =>
          /\ sheet_name' = SheetName(current_page_num, PositionOnPage(table_ix))
          /\ \A name \in DOMAIN xlsx_files :
                name \in DOMAIN xlsx_files' /\ xlsx_files'[name] = xlsx_files[name]]_vars

====
